---- MODULE Spec2Model ----
(***************************************************************************)
(* Behavioural fingerprinting pipeline: command normalisation, feature     *)
(* extraction, global n-gram vocabulary, feature assembly, and the         *)
(* train / predict / validate harness.                                     *)
(*                                                                         *)
(* Python dicts and Counters are insertion ordered; they are modelled as   *)
(* sequences of <<key, value>> pairs with pairwise distinct keys.          *)
(* Strings built with "_".join / f"{a}_{b}" are modelled as sequences of   *)
(* atoms with explicit "_" separator atoms.                                *)
(***************************************************************************)
EXTENDS Integers, Sequences, FiniteSets, TLC

VARIABLES
    \* ---- train.py / validate.py ----
    db,                 \* replays joined with players: rows in rowid order
    max_games,          \* train.py --max-games (0 = not given)
    min_held_out,       \* validate.py --min-held-out
    phase,              \* position of the harness run
    idx,                \* index of the next identity in the pros loop
    all_samples,        \* train.py: the training set
    cv_results,         \* cv_results.json written by train.py
    classes,            \* model["classes"]
    scored,             \* validate.py: every sample put into a feature matrix X
    total_tested,       \* validate.py totals
    total_correct,
    \* ---- vocabulary selection and feature assembly ----
    corpus,             \* the samples: scalar feature map and raw n-gram counters
    global_ngrams,      \* the frozen vocabulary (VocabNone before selection)
    assembled,          \* per sample: the feature map after apply_ngram_features
    \* ---- one player's sample of one replay ----
    all_cmds,           \* data["Commands"]["Cmds"]: every player's commands
    player_id,          \* the target player's ID
    game_frames,        \* data["Header"]["Frames"]
    trim_result,        \* what trim_at_leave returned
    extract_result,     \* what extract_features returned
    exp4_result,        \* what the experiment-4 extract_features returned
    \* ---- predict.py ----
    model,              \* the loaded model.joblib
    p_samples,          \* the samples handed to predict_samples
    X,                  \* the feature matrix, one row per sample
    predict_result,     \* what predict_samples returned
    \* ---- the abstracted n-grams of one command list ----
    tok_cmds,           \* c["Type"]["Name"] of each command
    tok_categories,     \* the category tokens before collapsing
    tok_collapsed,      \* after collapse_consecutive_prod
    tok_ngrams,         \* per n: what extract_abstracted_ngrams returned
    \* ---- extract_player_samples_by_aurora over an identity's replays ----
    ex_replays,         \* the rows of get_player_replays_by_aurora, decoded
    ex_next,            \* index of the next row of the loop
    ex_samples,         \* the samples list
    ex_output,          \* what the run printed about the extraction
    \* ---- experiment_zerg_raw.py: two runs over one sample set ----
    abl_replays,        \* the target player's commands in each replay found
    abl_samples,        \* all_samples, as main hands it to run_loo_cv
    abl_runs,           \* per finished run: what run_loo_cv built
    abl_pc,             \* the next statement of main: "extract", "A", "B", "done"
    \* ---- ingest_replays.py: ingest_new ----
    ing_incoming,       \* the replay files in the to-ingest directory
    ing_dest,           \* the destination directory: file name -> content
    ing_rows,           \* the rows of table replays
    ing_existing,       \* existing_hashes
    ing_pc,             \* "loop" while futures remain, then "done"
    \* ---- train.py main: one training run ----
    tr_pending,         \* the contributions of the identities not yet visited
    tr_samples,         \* all_samples
    tr_vocab,           \* global_ngrams (VocabNone before line 99)
    tr_next,            \* index of the next sample of the loop of line 108
    tr_model            \* what joblib.dump wrote (NoModel before)

hvars == <<db, max_games, min_held_out, phase, idx, all_samples, cv_results,
           classes, scored, total_tested, total_correct>>

vvars == <<corpus, global_ngrams, assembled>>

svars == <<all_cmds, player_id, game_frames, trim_result, extract_result, exp4_result>>

pvars == <<model, p_samples, X, predict_result>>

tvars == <<tok_cmds, tok_categories, tok_collapsed, tok_ngrams>>

xvars == <<ex_replays, ex_next, ex_samples, ex_output>>

avars == <<abl_replays, abl_samples, abl_runs, abl_pc>>

ivars == <<ing_incoming, ing_dest, ing_rows, ing_existing, ing_pc>>

rvars == <<tr_pending, tr_samples, tr_vocab, tr_next, tr_model>>

vars == <<hvars, vvars, svars, pvars, tvars, xvars, avars, ivars, rvars>>

(***************************************************************************)
(* Each specification below runs one part of the pipeline; the variables   *)
(* of the other parts stay at these idle values.                           *)
(***************************************************************************)
VocabNone == <<"None">>

Unset == [status |-> "unset", features |-> <<>>]

SampleUnset == [status |-> "unset", player_cmds |-> <<>>, game_frames |-> 0]

ExtractUnset == [status |-> "unset", features |-> <<>>]

HarnessIdle ==
    /\ db = <<>>
    /\ max_games = 0
    /\ min_held_out = 0
    /\ phase = "idle"
    /\ idx = 0
    /\ all_samples = <<>>
    /\ cv_results = <<>>
    /\ classes = {}
    /\ scored = <<>>
    /\ total_tested = 0
    /\ total_correct = 0

VocabIdle ==
    /\ corpus = <<>>
    /\ global_ngrams = VocabNone
    /\ assembled = <<>>

SampleIdle ==
    /\ all_cmds = <<>>
    /\ player_id = 0
    /\ game_frames = 0
    /\ trim_result = SampleUnset
    /\ extract_result = ExtractUnset
    /\ exp4_result = ExtractUnset

NoModel == [feature_names |-> <<>>, global_ngrams |-> <<>>, classes |-> <<>>]

PredictUnset ==
    [status |-> "unset", prediction |-> "", confidence |-> <<0, 1>>,
     all_preds |-> <<>>, games_analyzed |-> 0]

PredictIdle ==
    /\ model = NoModel
    /\ p_samples = <<>>
    /\ X = <<>>
    /\ predict_result = PredictUnset

NgramsUnset == <<"unset">>

TokensIdle ==
    /\ tok_cmds = <<>>
    /\ tok_categories = <<>>
    /\ tok_collapsed = <<>>
    /\ tok_ngrams = NgramsUnset

ExtractionIdle ==
    /\ ex_replays = <<>>
    /\ ex_next = 0
    /\ ex_samples = <<>>
    /\ ex_output = <<>>

AblationIdle ==
    /\ abl_replays = <<>>
    /\ abl_samples = <<>>
    /\ abl_runs = <<>>
    /\ abl_pc = "idle"

IngestIdle ==
    /\ ing_incoming = {}
    /\ ing_dest = <<>>
    /\ ing_rows = <<>>
    /\ ing_existing = {}
    /\ ing_pc = "idle"

TrainingIdle ==
    /\ tr_pending = <<>>
    /\ tr_samples = <<>>
    /\ tr_vocab = VocabNone
    /\ tr_next = 0
    /\ tr_model = NoModel

(***************************************************************************)
(* Generic helpers: ordered dict / Counter as a sequence of pairs.         *)
(***************************************************************************)
Range(s) == { s[i] : i \in 1..Len(s) }

DictKeys(d) == { d[i][1] : i \in 1..Len(d) }

DictHas(d, k) == \E i \in 1..Len(d) : d[i][1] = k

DictGet(d, k, default) ==
    IF DictHas(d, k) THEN d[CHOOSE i \in 1..Len(d) : d[i][1] = k][2] ELSE default

\* d[k] = v : overwrite in place, or append a new key at the end
DictSet(d, k, v) ==
    IF DictHas(d, k)
    THEN [i \in 1..Len(d) |-> IF d[i][1] = k THEN <<k, v>> ELSE d[i]]
    ELSE Append(d, <<k, v>>)

Prefix(s, n) == IF Len(s) > n THEN SubSeq(s, 1, n) ELSE s

\* Counter(iterable): keys in order of first occurrence, each with its number
\* of occurrences
CounterOf(s) ==
    LET first == SelectSeq([i \in 1..Len(s) |-> i],
                           LAMBDA i : \A j \in 1..(i - 1) : s[j] # s[i])
    IN [k \in 1..Len(first) |->
          <<s[first[k]], Cardinality({j \in 1..Len(s) : s[j] = s[first[k]]})>>]

RemoveAt(s, i) == SubSeq(s, 1, i - 1) \o SubSeq(s, i + 1, Len(s))

Min(a, b) == IF a <= b THEN a ELSE b

\* TRUE for every value. TLC evaluates an operator's argument when it is first
\* used; a loop that hands its result on to the next iteration tests this at
\* the start of each iteration, so that each result is computed in turn
Evaluated(x) == x = x

\* index of the first pair with the largest count
FirstMax(c) ==
    CHOOSE i \in 1..Len(c) :
        /\ \A j \in 1..Len(c) : c[j][2] <= c[i][2]
        /\ \A j \in 1..(i - 1) : c[j][2] < c[i][2]

\* sorted(items, key=count, reverse=True): stable, so pairs with equal counts
\* keep their insertion order
RECURSIVE SortedDesc(_)
SortedDesc(c) ==
    IF c = <<>> THEN <<>>
    ELSE LET i == FirstMax(c) IN <<c[i]>> \o SortedDesc(RemoveAt(c, i))

\* Counter.most_common(n): heapq.nlargest(n, ...) == sorted(..., reverse=True)[:n]
MostCommon(c, n) == Prefix(SortedDesc(c), n)

(***************************************************************************)
(* Strings. A string is the sequence of its "_"-free atoms with the "_"    *)
(* separators between them, so "ehkg3_0_1_2" is                            *)
(* <<"ehkg3", "_", "0", "_", "1", "_", "2">>.                              *)
(***************************************************************************)
Sep == "_"

\* "_".join(parts)
RECURSIVE Join(_)
Join(parts) ==
    IF parts = <<>> THEN <<>>
    ELSE IF Len(parts) = 1 THEN parts[1]
    ELSE parts[1] \o <<Sep>> \o Join(Tail(parts))

\* str(g) of a hotkey group number
GroupStr(g) == <<ToString(g)>>

\* mutant: the name is the token alone
FeatureName_NoPrefix(prefix, gram) == gram

\* f"{prefix}_{gram}"
FeatureName(prefix, gram) == <<prefix, Sep>> \o gram

\* a / b as a float: equal quotients are equal values
RECURSIVE Gcd(_, _)
Gcd(a, b) == IF b = 0 THEN a ELSE Gcd(b, a % b)

Ratio(a, b) == IF a = 0 THEN <<0, 1>> ELSE <<a \div Gcd(a, b), b \div Gcd(a, b)>>

Zero == <<0, 1>>

\* the product of two reduced ratios, reduced
RatioMul(x, y) ==
    IF x[1] = 0 \/ y[1] = 0 THEN Zero
    ELSE LET a == Ratio(x[1], y[2])
             b == Ratio(y[1], x[2])
         IN <<a[1] * b[1], a[2] * b[2]>>

\* Python's float division: ZeroDivisionError on a zero denominator
ZeroDivisionError == <<"ZeroDivisionError">>

Quot(a, b) == IF b = 0 THEN ZeroDivisionError ELSE Ratio(a, b)

\* an exception raised while the feature map was being filled
Raises(features) == \E i \in 1..Len(features) : features[i][2] = ZeroDivisionError

(***************************************************************************)
(* N-gram counters, global vocabulary, feature assembly (features.py).     *)
(***************************************************************************)
\* features.py 50-55, and the default of GLOBAL_NGRAM_TOP_N.get(prefix, 10)
GLOBAL_NGRAM_TOP_N(prefix) ==
    CASE prefix = "ng2" -> 25
      [] prefix = "ng3" -> 20
      [] prefix = "ng4" -> 15
      [] prefix = "hkg2" -> 15
      [] prefix = "hkg3" -> 10
      [] prefix = "ehkg2" -> 10
      [] prefix = "ehkg3" -> 8
      [] OTHER -> 10

\* the windows of length n of a stream of strings, joined with "_"
Grams(strs, n) ==
    [i \in 1..(Len(strs) - n + 1) |-> Join(SubSeq(strs, i, i + n - 1))]

\* features.py 210-214 (also 166-170, 101-104): Counter of the n-grams
NgramCounter(strs, n) == CounterOf(Grams(strs, n))

RECURSIVE SumValues(_)
SumValues(c) == IF c = <<>> THEN 0 ELSE c[1][2] + SumValues(Tail(c))

\* mutant: each sample keeps only its own five most common n-grams
ChannelEntry_LocalTop(raw_ngrams, prefix, counter) ==
    IF SumValues(counter) > 0
    THEN DictSet(raw_ngrams, prefix,
                 [counter |-> MostCommon(counter, 5), total |-> SumValues(counter)])
    ELSE raw_ngrams

\* features.py 214-216: a channel is stored only when it has n-grams
ChannelEntry(raw_ngrams, prefix, counter) ==
    IF SumValues(counter) > 0
    THEN DictSet(raw_ngrams, prefix, [counter |-> counter, total |-> SumValues(counter)])
    ELSE raw_ngrams

\* features.py 206-216: the early hotkey-group channels
EarlyGroupNgrams(early_groups) ==
    IF Len(early_groups) > 5
    THEN LET early_grp_strs == [i \in 1..Len(early_groups) |-> GroupStr(early_groups[i])]
             r2 == ChannelEntry(<<>>, "ehkg2", NgramCounter(early_grp_strs, 2))
         IN ChannelEntry(r2, "ehkg3", NgramCounter(early_grp_strs, 3))
    ELSE <<>>

\* features.py 162-172: the hotkey-group channels
HotkeyGroupNgrams(groups) ==
    IF Len(groups) > 10
    THEN LET group_strs == [i \in 1..Len(groups) |-> GroupStr(groups[i])]
             r2 == ChannelEntry(<<>>, "hkg2", NgramCounter(group_strs, 2))
         IN ChannelEntry(r2, "hkg3", NgramCounter(group_strs, 3))
    ELSE <<>>

\* Counter.__iadd__: add the counts of other, then drop non-positive counts
RECURSIVE CounterIAdd(_, _)
CounterIAdd(self, other) ==
    IF other = <<>> THEN SelectSeq(self, LAMBDA e : e[2] > 0)
    ELSE CounterIAdd(DictSet(self, other[1][1], DictGet(self, other[1][1], 0) + other[1][2]),
                     Tail(other))

\* features.py 343-346: one sample's counters added to global_counts
RECURSIVE AddSample(_, _)
AddSample(global_counts, sample_ngrams) ==
    IF sample_ngrams = <<>> \/ ~Evaluated(global_counts) THEN global_counts
    ELSE LET prefix == sample_ngrams[1][1]
             counter == sample_ngrams[1][2].counter
         IN AddSample(DictSet(global_counts, prefix,
                              CounterIAdd(DictGet(global_counts, prefix, <<>>), counter)),
                      Tail(sample_ngrams))

\* features.py 342-346: the loop body run for all_raw_ngrams[lo], ...,
\* all_raw_ngrams[hi] in order (the range is halved so that long sample
\* lists stay shallow)
RECURSIVE AddSamples(_, _, _, _)
AddSamples(global_counts, all_raw_ngrams, lo, hi) ==
    IF lo > hi \/ ~Evaluated(global_counts) THEN global_counts
    ELSE IF lo = hi THEN AddSample(global_counts, all_raw_ngrams[lo])
    ELSE LET mid == (lo + hi) \div 2
         IN AddSamples(AddSamples(global_counts, all_raw_ngrams, lo, mid),
                       all_raw_ngrams, mid + 1, hi)

\* features.py 340-346
GlobalCounts(all_raw_ngrams) == AddSamples(<<>>, all_raw_ngrams, 1, Len(all_raw_ngrams))

\* mutant: the counter is sorted ascending, so the least common tokens are kept
TopGrams_Ascending(prefix, counter) ==
    LET n == Len(counter)
        sorted == SortedDesc(counter)
        k == IF GLOBAL_NGRAM_TOP_N(prefix) < n THEN GLOBAL_NGRAM_TOP_N(prefix) ELSE n
    IN [i \in 1..k |-> sorted[n + 1 - i][1]]

\* features.py 349-351: the channel's top-N tokens
TopGrams(prefix, counter) ==
    LET top == MostCommon(counter, GLOBAL_NGRAM_TOP_N(prefix))
    IN [i \in 1..Len(top) |-> top[i][1]]

\* features.py 338-353
select_global_ngrams(all_raw_ngrams) ==
    LET global_counts == GlobalCounts(all_raw_ngrams)
    IN [i \in 1..Len(global_counts) |->
          <<global_counts[i][1], TopGrams(global_counts[i][1], global_counts[i][2])>>]

\* mutant: the count is stored without dividing by the channel total
GramValue_RawCount(entry, gram) == <<DictGet(entry.counter, gram, 0), 1>>

\* features.py 361: the value of one vocabulary token for one sample
GramValue(entry, gram) ==
    IF entry.total > 0 THEN Ratio(DictGet(entry.counter, gram, 0), entry.total) ELSE Zero

\* mutant: only the tokens the sample itself contains get a feature
RECURSIVE ApplyGrams_OwnTokensOnly(_, _, _, _)
ApplyGrams_OwnTokensOnly(features, prefix, entry, selected_grams) ==
    IF selected_grams = <<>> THEN features
    ELSE IF ~DictHas(entry.counter, Head(selected_grams))
    THEN ApplyGrams_OwnTokensOnly(features, prefix, entry, Tail(selected_grams))
    ELSE ApplyGrams_OwnTokensOnly(
             DictSet(features, FeatureName(prefix, Head(selected_grams)),
                     GramValue(entry, Head(selected_grams))),
             prefix, entry, Tail(selected_grams))

\* mutant: the share is added to the value the map already holds
RECURSIVE ApplyGrams_Accumulates(_, _, _, _)
ApplyGrams_Accumulates(features, prefix, entry, selected_grams) ==
    IF selected_grams = <<>> \/ ~Evaluated(features) THEN features
    ELSE LET name == FeatureName(prefix, Head(selected_grams))
             old == DictGet(features, name, Zero)
             new == GramValue(entry, Head(selected_grams))
         IN ApplyGrams_Accumulates(
                DictSet(features, name,
                        Ratio(old[1] * new[2] + new[1] * old[2], old[2] * new[2])),
                prefix, entry, Tail(selected_grams))

\* features.py 360-361: the inner loop over a channel's selected grams
RECURSIVE ApplyGrams(_, _, _, _)
ApplyGrams(features, prefix, entry, selected_grams) ==
    IF selected_grams = <<>> \/ ~Evaluated(features) THEN features
    ELSE ApplyGrams(DictSet(features, FeatureName(prefix, Head(selected_grams)),
                            GramValue(entry, Head(selected_grams))),
                    prefix, entry, Tail(selected_grams))

NoCounter == [counter |-> <<>>, total |-> 0]

\* features.py 356-361: the feature map after the call (features is updated
\* in place)
RECURSIVE apply_ngram_features(_, _, _)
apply_ngram_features(features, raw_ngrams, vocab) ==
    IF vocab = <<>> \/ ~Evaluated(features) THEN features
    ELSE LET prefix == vocab[1][1]
             entry == DictGet(raw_ngrams, prefix, NoCounter)
         IN apply_ngram_features(ApplyGrams(features, prefix, entry, vocab[1][2]),
                                 raw_ngrams, Tail(vocab))

RawNgramsOf(sample_list) == [i \in 1..Len(sample_list) |-> sample_list[i].raw_ngrams]

(***************************************************************************)
(* Vocabulary specification: a corpus of samples, one selection of the     *)
(* vocabulary, then assembly of every sample.                              *)
(***************************************************************************)
MaxSamples == 2

MaxGroup == 7

\* early hotkey-group streams: a run of consecutive groups up or down from
\* either end, up and back down again, or groups 0 and 1 alternating
Ramp(a, b) ==
    IF a <= b THEN [i \in 1..(b - a + 1) |-> a + i - 1]
    ELSE [i \in 1..(a - b + 1) |-> a - i + 1]

ZigZag(len) == [i \in 1..len |-> (i + 1) % 2]

UpDown(top) == Ramp(0, top) \o Ramp(top - 1, 0)

EarlyGroupStreams ==
    { Ramp(0, b) : b \in {0, MaxGroup - 1, MaxGroup} }
    \cup { Ramp(MaxGroup, b) : b \in {0, 1} }
    \cup { ZigZag(MaxGroup), UpDown(MaxGroup) }

\* scalar feature maps as extract_features leaves them: hk_tr_* entries are
\* present only for transitions the sample has
ScalarMaps ==
    { << <<<<"apm">>, <<150, 1>>>> >>,
      << <<<<"apm">>, <<90, 1>>>>,
         <<<<"hk", Sep, "tr", Sep, "0", Sep, "1">>, <<1, 2>>>> >> }

VocabSamples ==
    { [features |-> f, raw_ngrams |-> EarlyGroupNgrams(g)] :
        f \in ScalarMaps, g \in EarlyGroupStreams }

\* train.py 99: the vocabulary is selected from the whole sample list
SelectVocabulary ==
    /\ global_ngrams = VocabNone
    /\ global_ngrams' = select_global_ngrams(RawNgramsOf(corpus))
    /\ UNCHANGED <<corpus, assembled>>
    /\ UNCHANGED <<hvars, svars, pvars, tvars, xvars, avars, ivars, rvars>>

\* train.py 108-109, predict.py 63-64, validate.py 85-86: one sample assembled
Assemble(i) ==
    /\ global_ngrams # VocabNone
    /\ LET before == IF assembled[i].status = "unset" THEN corpus[i].features
                     ELSE assembled[i].features
       IN assembled' = [assembled EXCEPT ![i] =
               [status |-> "ok",
                features |-> apply_ngram_features(before, corpus[i].raw_ngrams,
                                                  global_ngrams)]]
    /\ UNCHANGED <<corpus, global_ngrams>>
    /\ UNCHANGED <<hvars, svars, pvars, tvars, xvars, avars, ivars, rvars>>

VocabInit ==
    /\ \E n \in 1..MaxSamples : corpus \in [1..n -> VocabSamples]
    /\ global_ngrams = VocabNone
    /\ assembled = [i \in 1..Len(corpus) |-> Unset]
    /\ HarnessIdle
    /\ SampleIdle
    /\ PredictIdle
    /\ TokensIdle
    /\ ExtractionIdle
    /\ AblationIdle
    /\ IngestIdle
    /\ TrainingIdle

VocabNext ==
    \/ SelectVocabulary
    \/ \E i \in 1..Len(corpus) : Assemble(i)

SpecVocab == VocabInit /\ [][VocabNext]_vars

(***************************************************************************)
(* Claims about the vocabulary and the assembler.                          *)
(***************************************************************************)
VocabTokens(vocab) == { <<vocab[k][1], Range(vocab[k][2])>> : k \in 1..Len(vocab) }

Permuted(s, p) == [i \in 1..Len(s) |-> s[p[i]]]

\* C3: whatever the order in which the samples' counters are supplied,
\* select_global_ngrams selects the same tokens for every channel.
C3_SelectionOrderInvariant ==
    global_ngrams # VocabNone =>
        \A p \in Permutations(1..Len(corpus)) :
            VocabTokens(select_global_ngrams(Permuted(RawNgramsOf(corpus), p)))
                = VocabTokens(global_ngrams)

\* the feature names of the frozen vocabulary
VocabNames(vocab) ==
    UNION { { FeatureName(vocab[k][1], vocab[k][2][j]) : j \in 1..Len(vocab[k][2]) } :
            k \in 1..Len(vocab) }

RECURSIVE VocabSize(_)
VocabSize(vocab) ==
    IF vocab = <<>> THEN 0 ELSE Len(vocab[1][2]) + VocabSize(Tail(vocab))

\* C6: an assembled feature map has exactly the scalar names and one name per
\* vocabulary token, and as many entries as scalar names plus vocabulary
\* tokens.
C6_AssembledNamesAreScalarPlusVocabulary ==
    \A i \in 1..Len(assembled) :
        assembled[i].status = "ok" =>
            /\ DictKeys(assembled[i].features)
                 = DictKeys(corpus[i].features) \cup VocabNames(global_ngrams)
            /\ Len(assembled[i].features)
                 = Len(corpus[i].features) + VocabSize(global_ngrams)

\* an assembled sample that lacks a token of a non-empty vocabulary
C6_Witness ==
    \E i \in 1..Len(assembled) :
        /\ assembled[i].status = "ok"
        /\ \E k \in 1..Len(global_ngrams) : \E j \in 1..Len(global_ngrams[k][2]) :
              ~DictHas(DictGet(corpus[i].raw_ngrams, global_ngrams[k][1], NoCounter).counter,
                       global_ngrams[k][2][j])

\* the value the assembler is to give a vocabulary token of a sample
ExpectedValue(raw_ngrams, prefix, gram) ==
    IF ~DictHas(raw_ngrams, prefix) THEN Zero
    ELSE LET e == DictGet(raw_ngrams, prefix, NoCounter)
         IN IF e.total = 0 \/ ~DictHas(e.counter, gram) THEN Zero
            ELSE Ratio(DictGet(e.counter, gram, 0), e.total)

\* C7: every vocabulary token's feature is the sample's count of the token
\* over the sample's channel total, and 0 when the token, or the whole
\* channel, is absent from the sample.
C7_TokenValueIsShareOfChannel ==
    \A i \in 1..Len(assembled) :
        assembled[i].status = "ok" =>
            \A k \in 1..Len(global_ngrams) : \A j \in 1..Len(global_ngrams[k][2]) :
                LET name == FeatureName(global_ngrams[k][1], global_ngrams[k][2][j])
                IN /\ DictHas(assembled[i].features, name)
                   /\ DictGet(assembled[i].features, name, <<-1, 1>>)
                        = ExpectedValue(corpus[i].raw_ngrams, global_ngrams[k][1],
                                        global_ngrams[k][2][j])

\* assembled: one sample that has a vocabulary token several times, and one
\* sample without any counter for a channel of the vocabulary
C7_Witness ==
    /\ \E i \in 1..Len(assembled) :
          /\ assembled[i].status = "ok"
          /\ \E k \in 1..Len(global_ngrams) : \E j \in 1..Len(global_ngrams[k][2]) :
                DictGet(DictGet(corpus[i].raw_ngrams, global_ngrams[k][1], NoCounter).counter,
                        global_ngrams[k][2][j], 0) > 1
    /\ \E i \in 1..Len(assembled) :
          /\ assembled[i].status = "ok"
          /\ corpus[i].raw_ngrams = <<>>
          /\ global_ngrams # <<>>

\* C22: applying the frozen vocabulary to a sample a second time, with the same
\* raw counters, gives the feature map the first application gave: no key is
\* added, removed or moved and no value changes.
C22_SecondApplicationChangesNothing ==
    \A i \in 1..Len(corpus) :
        assembled[i].status = "ok" =>
            apply_ngram_features(assembled[i].features, corpus[i].raw_ngrams, global_ngrams)
                = assembled[i].features

\* C22 witness: an assembled sample that holds a non-zero n-gram share and a
\* zero one next to its scalar features
C22_Witness ==
    \E i \in 1..Len(corpus) :
        /\ assembled[i].status = "ok"
        /\ Len(assembled[i].features) > Len(corpus[i].features)
        /\ \E k \in 1..Len(assembled[i].features) :
              /\ assembled[i].features[k][1] \notin DictKeys(corpus[i].features)
              /\ assembled[i].features[k][2] # Zero
        /\ \E k \in 1..Len(assembled[i].features) :
              /\ assembled[i].features[k][1] \notin DictKeys(corpus[i].features)
              /\ assembled[i].features[k][2] = Zero

\* the channels some sample of the corpus has a counter for
CorpusChannels ==
    UNION { DictKeys(corpus[i].raw_ngrams) : i \in 1..Len(corpus) }

\* the n-grams of a channel over the whole corpus
CorpusGrams(prefix) ==
    UNION { DictKeys(DictGet(corpus[i].raw_ngrams, prefix, NoCounter).counter) :
              i \in 1..Len(corpus) }

\* the count of an n-gram summed over all samples
RECURSIVE CorpusCountUpTo(_, _, _)
CorpusCountUpTo(prefix, gram, i) ==
    IF i = 0 THEN 0
    ELSE DictGet(DictGet(corpus[i].raw_ngrams, prefix, NoCounter).counter, gram, 0)
         + CorpusCountUpTo(prefix, gram, i - 1)

CorpusCount(prefix, gram) == CorpusCountUpTo(prefix, gram, Len(corpus))

\* C15: for every channel, select_global_ngrams returns min(N, number of
\* distinct n-grams of the channel in the corpus) tokens, none twice, N being
\* the channel's cap (25/20/15 for ng2/ng3/ng4, 15/10 for hkg2/hkg3, 10/8 for
\* ehkg2/ehkg3); every selected token's corpus count is >= the corpus count
\* of every token not selected.
C15_TopNByCorpusCount ==
    /\ GLOBAL_NGRAM_TOP_N("ng2") = 25 /\ GLOBAL_NGRAM_TOP_N("ng3") = 20
    /\ GLOBAL_NGRAM_TOP_N("ng4") = 15 /\ GLOBAL_NGRAM_TOP_N("hkg2") = 15
    /\ GLOBAL_NGRAM_TOP_N("hkg3") = 10 /\ GLOBAL_NGRAM_TOP_N("ehkg2") = 10
    /\ GLOBAL_NGRAM_TOP_N("ehkg3") = 8
    /\ global_ngrams # VocabNone =>
          /\ DictKeys(global_ngrams) = CorpusChannels
          /\ \A k \in 1..Len(global_ngrams) :
                LET prefix == global_ngrams[k][1]
                    tokens == global_ngrams[k][2]
                    distinct == CorpusGrams(prefix)
                IN /\ Len(tokens) = Min(GLOBAL_NGRAM_TOP_N(prefix), Cardinality(distinct))
                   /\ Cardinality(Range(tokens)) = Len(tokens)
                   /\ Range(tokens) \subseteq distinct
                   /\ \A g \in Range(tokens) : \A u \in distinct \ Range(tokens) :
                         CorpusCount(prefix, g) >= CorpusCount(prefix, u)

\* selected: a channel with more distinct n-grams than its cap, where a
\* selected token is more frequent than one left out
C15_Witness ==
    /\ global_ngrams # VocabNone
    /\ \E k \in 1..Len(global_ngrams) :
          LET prefix == global_ngrams[k][1]
              tokens == global_ngrams[k][2]
          IN /\ Cardinality(CorpusGrams(prefix)) > GLOBAL_NGRAM_TOP_N(prefix)
             /\ \E g \in Range(tokens) : \E u \in CorpusGrams(prefix) \ Range(tokens) :
                   CorpusCount(prefix, g) > CorpusCount(prefix, u)

(***************************************************************************)
(* Command normaliser and feature extraction gate (features.py).           *)
(***************************************************************************)
FRAME_MS == 42

MIN_GAME_MINUTES == 4

MIN_COMMANDS == 100

LeaveGame == "Leave Game"

\* features.py 72-76: the frame of the first Leave Game in list order, or -1
\* for None
LeaveFrame(cmds) ==
    LET leaves == SelectSeq(cmds, LAMBDA c : c.Name = LeaveGame)
    IN IF leaves = <<>> THEN -1 ELSE leaves[1].Frame

\* mutant: the search does not stop at the first Leave Game
trim_at_leave_LastLeave(player_cmds, cmds, frames) ==
    LET leaves == SelectSeq(cmds, LAMBDA c : c.Name = LeaveGame)
        leave_frame == IF leaves = <<>> THEN -1 ELSE leaves[Len(leaves)].Frame
    IN IF leave_frame # -1
       THEN [status |-> "ok",
             player_cmds |-> SelectSeq(player_cmds, LAMBDA c : c.Frame <= leave_frame),
             game_frames |-> Min(frames, leave_frame)]
       ELSE [status |-> "ok", player_cmds |-> player_cmds, game_frames |-> frames]

\* mutant: only a Leave Game of the target player counts
trim_at_leave_OwnLeave(player_cmds, cmds, frames) ==
    LET leave_frame == LeaveFrame(player_cmds)
    IN IF leave_frame # -1
       THEN [status |-> "ok",
             player_cmds |-> SelectSeq(player_cmds, LAMBDA c : c.Frame <= leave_frame),
             game_frames |-> Min(frames, leave_frame)]
       ELSE [status |-> "ok", player_cmds |-> player_cmds, game_frames |-> frames]

\* features.py 69-82
trim_at_leave(player_cmds, cmds, frames) ==
    LET leave_frame == LeaveFrame(cmds)
    IN IF leave_frame # -1
       THEN [status |-> "ok",
             player_cmds |-> SelectSeq(player_cmds, LAMBDA c : c.Frame <= leave_frame),
             game_frames |-> Min(frames, leave_frame)]
       ELSE [status |-> "ok", player_cmds |-> player_cmds, game_frames |-> frames]

CountIf(s, Test(_)) == Len(SelectSeq(s, Test))

CountName(commands, name) == CountIf(commands, LAMBDA c : c.Name = name)

\* features.py 121-125: the gaps between consecutive commands, in ms
GapsMs(commands) ==
    [i \in 1..(Len(commands) - 1) |-> (commands[i + 1].Frame - commands[i].Frame) * FRAME_MS]

\* the sum of a list of integers
RECURSIVE SumRange(_, _, _)
SumRange(s, lo, hi) ==
    IF lo > hi THEN 0
    ELSE IF lo = hi THEN s[lo]
    ELSE LET mid == (lo + hi) \div 2
         IN SumRange(s, lo, mid) + SumRange(s, mid + 1, hi)

SumSeq(s) == SumRange(s, 1, Len(s))

\* features.py 126-127, 132: gap_std / gap_mean if gap_mean > 0 else 0. The
\* standard deviation is a square root, so the value kept is the square of
\* the feature, variance / mean^2 = n (n S2 - S1^2) / ((n - 1) S1^2), computed
\* on the gaps in frames (the ratio does not depend on the unit)
Burstiness(gaps_ms) ==
    LET n == Len(gaps_ms)
        g == [i \in 1..n |-> gaps_ms[i] \div FRAME_MS]
        S1 == SumSeq(g)
        S2 == SumSeq([i \in 1..n |-> g[i] * g[i]])
    IN IF S1 > 0
       THEN IF n > 1 THEN RatioMul(Ratio(n, n - 1), Ratio(n * S2 - S1 * S1, S1 * S1))
            ELSE Zero
       ELSE Zero

\* features.py 127: statistics.stdev(gaps_ms) if len(gaps_ms) > 1 else 0. The
\* value kept is the square of the feature, the sample variance
\* (n S2 - S1^2) / (n (n - 1)), computed on the gaps in frames and scaled by
\* FRAME_MS^2
GapVariance(gaps_ms) ==
    LET n == Len(gaps_ms)
        g == [i \in 1..n |-> gaps_ms[i] \div FRAME_MS]
        S1 == SumSeq(g)
        S2 == SumSeq([i \in 1..n |-> g[i] * g[i]])
    IN IF n > 1
       THEN RatioMul(Ratio(n * S2 - S1 * S1, n * (n - 1)), <<FRAME_MS * FRAME_MS, 1>>)
       ELSE Zero

\* mutant: rapid gaps are counted with the burst threshold of 150 ms
TimingFeatures_BurstThreshold(features, commands) ==
    LET gaps_ms == GapsMs(commands)
        n == Len(gaps_ms)
    IN IF n = 0 THEN features
       ELSE LET f0 == DictSet(DictSet(features, <<"gap", Sep, "mean">>,
                                      Quot(SumSeq(gaps_ms), n)),
                              <<"gap", Sep, "std">>, GapVariance(gaps_ms))
                f1 == DictSet(f0, <<"rapid", Sep, "ratio">>,
                              Quot(CountIf(gaps_ms, LAMBDA g : g < 150), n))
                f2 == DictSet(f1, <<"moderate", Sep, "ratio">>,
                              Quot(CountIf(gaps_ms, LAMBDA g : 100 <= g /\ g < 300), n))
                f3 == DictSet(f2, <<"slow", Sep, "ratio">>,
                              Quot(CountIf(gaps_ms, LAMBDA g : g >= 500), n))
            IN DictSet(f3, <<"burstiness">>, Burstiness(gaps_ms))

\* features.py 124-132: the gap features (present when there are gaps)
TimingFeatures(features, commands) ==
    LET gaps_ms == GapsMs(commands)
        n == Len(gaps_ms)
    IN IF n = 0 THEN features
       ELSE LET f0 == DictSet(DictSet(features, <<"gap", Sep, "mean">>,
                                      Quot(SumSeq(gaps_ms), n)),
                              <<"gap", Sep, "std">>, GapVariance(gaps_ms))
                f1 == DictSet(f0, <<"rapid", Sep, "ratio">>,
                              Quot(CountIf(gaps_ms, LAMBDA g : g < 100), n))
                f2 == DictSet(f1, <<"moderate", Sep, "ratio">>,
                              Quot(CountIf(gaps_ms, LAMBDA g : 100 <= g /\ g < 300), n))
                f3 == DictSet(f2, <<"slow", Sep, "ratio">>,
                              Quot(CountIf(gaps_ms, LAMBDA g : g >= 500), n))
            IN DictSet(f3, <<"burstiness">>, Burstiness(gaps_ms))

\* features.py 308: int(FRAMES_PER_MINUTE), FRAMES_PER_MINUTE = (1000 / 42) * 60
FramesPerMin == (60 * 1000) \div FRAME_MS

\* features.py 309-310: the commands of minute buckets lo .. hi - 1
BucketCount(commands, lo, hi) ==
    CountIf(commands, LAMBDA c : lo * FramesPerMin <= c.Frame /\ c.Frame < hi * FramesPerMin)

\* features.py 311-314: (early - late) / early if early > 0 else 0, on the
\* means of buckets 0..2 and 5..7 (the common factor 1/3 cancels)
ApmDecay(features, commands) ==
    LET early == BucketCount(commands, 0, 3)
        late == BucketCount(commands, 5, 8)
    IN DictSet(features, <<"apm", Sep, "decay">>,
               IF early > 0 THEN Quot(early - late, early) ELSE Zero)

\* features.py 219-220, 306, 308-314, 317-326: the features every sample has
AggregateFeatures(features, commands, frames) ==
    LET total == Len(commands)
        thinking == CountName(commands, "Hotkey") + CountName(commands, "Select")
        doing == CountName(commands, "Right Click") + CountName(commands, "Targeted Order")
        f1 == DictSet(features, <<"queued", Sep, "ratio">>,
                      Quot(CountIf(commands, LAMBDA c : c.Queued), total))
        f2 == DictSet(ApmDecay(f1, commands), <<"apm">>,
                      Quot(total * 60000, frames * FRAME_MS))
        f3 == DictSet(f2, <<"pct", Sep, "hotkey">>, Quot(CountName(commands, "Hotkey"), total))
        f4 == DictSet(f3, <<"pct", Sep, "right", Sep, "click">>,
                      Quot(CountName(commands, "Right Click"), total))
        f5 == DictSet(f4, <<"pct", Sep, "select">>, Quot(CountName(commands, "Select"), total))
        f6 == DictSet(f5, <<"pct", Sep, "targeted", Sep, "order">>,
                      Quot(CountName(commands, "Targeted Order"), total))
    IN DictSet(f6, <<"think", Sep, "do", Sep, "ratio">>,
               IF doing > 0 THEN Ratio(thinking, doing) ELSE Zero)

NoneResult == [status |-> "none", features |-> <<>>]

\* the call ended in an exception
RaiseResult == [status |-> "raise", features |-> <<>>]

\* mutant: the length gate rejects a list of exactly MIN_COMMANDS commands
InsufficientData_OffByOne(commands, frames) ==
    \/ Len(commands) <= MIN_COMMANDS
    \/ frames * FRAME_MS < MIN_GAME_MINUTES * 60 * 1000

\* features.py 110-115: (frames * FRAME_MS) / 1000 / 60 < MIN_GAME_MINUTES; no
\* whole number of frames comes within rounding distance of 4 minutes, so the
\* float comparison is the integer one
InsufficientData(commands, frames) ==
    \/ Len(commands) < MIN_COMMANDS
    \/ frames * FRAME_MS < MIN_GAME_MINUTES * 60 * 1000

\* features.py 108-335 (timing shares and aggregate ratios of the feature map)
extract_features(commands, frames) ==
    IF InsufficientData(commands, frames) THEN NoneResult
    ELSE LET features == AggregateFeatures(TimingFeatures(<<>>, commands), commands, frames)
         IN IF Raises(features) THEN RaiseResult
            ELSE [status |-> "ok", features |-> features]

\* classifier_exp4_abstracted_ngrams.py 103-212: the same timing and aggregate
\* features (lines 115-123, 171-172, 182-202) behind a length gate only
exp4_extract_features(commands, frames) ==
    IF Len(commands) < MIN_COMMANDS THEN NoneResult
    ELSE LET features == AggregateFeatures(TimingFeatures(<<>>, commands), commands, frames)
         IN IF Raises(features) THEN RaiseResult
            ELSE [status |-> "ok", features |-> features]

(***************************************************************************)
(* Sample specification: one replay's command list, trimmed for the target *)
(* player, then handed to extract_features.                                *)
(***************************************************************************)
MaxCmds == 3

MaxFrame == 3

WideSpacing == 60

ExtraCmds == 1

ExtraFrames == 300

PlayerIDs == {0, 1}

Cmd(frame, name, pid) == [Frame |-> frame, Name |-> name, PlayerID |-> pid, Queued |-> FALSE]

ShortCmds ==
    { Cmd(f, n, p) : f \in 0..MaxFrame, n \in {LeaveGame, "Right Click"}, p \in PlayerIDs }

\* the decoder lists the commands of a replay in frame order
SortedByFrame(cmds) == \A i \in 1..(Len(cmds) - 1) : cmds[i].Frame <= cmds[i + 1].Frame

\* the first frame count that reaches MIN_GAME_MINUTES
GateFrames == (MIN_GAME_MINUTES * 60 * 1000 + FRAME_MS - 1) \div FRAME_MS

Patterns ==
    { << <<"Right Click", FALSE>> >>,
      << <<"Select", FALSE>>, <<"Right Click", TRUE>> >>,
      << <<"Hotkey", FALSE>>, <<"Select", FALSE>>, <<"Train", FALSE>> >> }

\* n commands of player 0, spaced d frames apart, their types cycling through
\* pat; with leaveAt > 0 player 1 leaves in the frame of command leaveAt
LongCmds(n, d, pat, leaveAt) ==
    LET own == [k \in 1..n |->
                  [Frame |-> (k - 1) * d, Name |-> pat[((k - 1) % Len(pat)) + 1][1],
                   PlayerID |-> 0, Queued |-> pat[((k - 1) % Len(pat)) + 1][2]]]
    IN IF leaveAt = 0 \/ leaveAt > n THEN own
       ELSE SubSeq(own, 1, leaveAt) \o <<Cmd((leaveAt - 1) * d, LeaveGame, 1)>>
            \o SubSeq(own, leaveAt + 1, n)

\* the first frame past the three minute buckets apm_decay calls early
LateStart == 3 * FramesPerMin

\* the same commands, the first of them issued at frame start
Shifted(cmds, start) == [i \in 1..Len(cmds) |-> [cmds[i] EXCEPT !.Frame = @ + start]]

\* features.py 518-519
Trim ==
    /\ trim_result.status = "unset"
    /\ trim_result' = trim_at_leave(SelectSeq(all_cmds, LAMBDA c : c.PlayerID = player_id),
                                    all_cmds, game_frames)
    /\ UNCHANGED <<all_cmds, player_id, game_frames, extract_result, exp4_result>>
    /\ UNCHANGED <<hvars, vvars, pvars, tvars, xvars, avars, ivars, rvars>>

\* features.py 520
Extract ==
    /\ trim_result.status = "ok"
    /\ extract_result.status = "unset"
    /\ extract_result' = extract_features(trim_result.player_cmds, trim_result.game_frames)
    /\ UNCHANGED <<all_cmds, player_id, game_frames, trim_result, exp4_result>>
    /\ UNCHANGED <<hvars, vvars, pvars, tvars, xvars, avars, ivars, rvars>>

\* classifier_exp4_abstracted_ngrams.py 265-266: the player's commands go to
\* the extractor untrimmed, with the header's frame count
ExtractExp4 ==
    /\ exp4_result.status = "unset"
    /\ exp4_result' = exp4_extract_features(
                         SelectSeq(all_cmds, LAMBDA c : c.PlayerID = player_id), game_frames)
    /\ UNCHANGED <<all_cmds, player_id, game_frames, trim_result, extract_result>>
    /\ UNCHANGED <<hvars, vvars, pvars, tvars, xvars, avars, ivars, rvars>>

ShortInit ==
    /\ \E n \in 0..MaxCmds : all_cmds \in [1..n -> ShortCmds]
    /\ SortedByFrame(all_cmds)
    /\ player_id \in PlayerIDs
    /\ game_frames \in 0..(MaxFrame + 1)

LongInit ==
    /\ \E n \in {MIN_COMMANDS - 1, MIN_COMMANDS, MIN_COMMANDS + ExtraCmds},
          d \in {0, 1, WideSpacing}, pat \in Patterns,
          leaveAt \in {0, MIN_COMMANDS - 1, MIN_COMMANDS},
          start \in {0, LateStart} :
          all_cmds = Shifted(LongCmds(n, d, pat, leaveAt), start)
    /\ player_id = 0
    /\ game_frames \in {0, GateFrames - 1, GateFrames, GateFrames + ExtraFrames}

UniformClicks == 150

MaxSpacing == 4

\* UniformClicks commands of player 0, one every d frames, every other one
\* delayed by jitter frames
ClickCmds(d, jitter) ==
    [k \in 1..UniformClicks |->
        Cmd((k - 1) * d + jitter * ((k - 1) % 2), "Right Click", 0)]

ClickInit ==
    /\ \E d \in 1..MaxSpacing, jitter \in {0, 1} : all_cmds = ClickCmds(d, jitter)
    /\ player_id = 0
    /\ game_frames \in {GateFrames - 1, GateFrames, GateFrames + ExtraFrames}

SampleInit ==
    /\ (ShortInit \/ LongInit \/ ClickInit)
    /\ trim_result = SampleUnset
    /\ extract_result = ExtractUnset
    /\ exp4_result = ExtractUnset
    /\ HarnessIdle
    /\ VocabIdle
    /\ PredictIdle
    /\ TokensIdle
    /\ ExtractionIdle
    /\ AblationIdle
    /\ IngestIdle
    /\ TrainingIdle

SampleNext ==
    \/ Trim
    \/ Extract
    \/ ExtractExp4

SpecSample == SampleInit /\ [][SampleNext]_vars

\* C8: with a Leave Game at frame F in the match command list, trim_at_leave
\* returns no command of the target player whose frame is at or after F.
C8_NothingAtOrAfterLeave ==
    trim_result.status = "ok" =>
        \A i \in 1..Len(all_cmds) :
            all_cmds[i].Name = LeaveGame =>
                \A j \in 1..Len(trim_result.player_cmds) :
                    trim_result.player_cmds[j].Frame < all_cmds[i].Frame

\* the target player has a command after the Leave Game at position i
HasLaterCommand(i) ==
    \E j \in 1..Len(all_cmds) :
        /\ all_cmds[j].PlayerID = player_id
        /\ all_cmds[j].Frame > all_cmds[i].Frame

\* C9: with a Leave Game at frame F followed by further commands of the
\* target player, every returned command has a frame <= F and the returned
\* duration is at most F.
C9_TrimmedUpToLeave ==
    trim_result.status = "ok" =>
        \A i \in 1..Len(all_cmds) :
            (all_cmds[i].Name = LeaveGame /\ HasLaterCommand(i)) =>
                /\ \A j \in 1..Len(trim_result.player_cmds) :
                      trim_result.player_cmds[j].Frame <= all_cmds[i].Frame
                /\ trim_result.game_frames <= all_cmds[i].Frame

\* trimmed: a Leave Game with commands of the target player before and after
\* it, and a nominal duration beyond the leave
C9_Witness ==
    /\ trim_result.status = "ok"
    /\ trim_result.player_cmds # <<>>
    /\ \E i \in 1..Len(all_cmds) :
          /\ all_cmds[i].Name = LeaveGame
          /\ HasLaterCommand(i)
          /\ game_frames > all_cmds[i].Frame

\* C10: extract_features returns no feature map exactly when it is given
\* fewer than MIN_COMMANDS commands or a duration below MIN_GAME_MINUTES
\* (frames * 42 ms < 240000 ms); otherwise the feature map is not empty.
C10_InsufficientDataGate ==
    extract_result.status # "unset" =>
        LET n == Len(trim_result.player_cmds)
            short == n < 100 \/ trim_result.game_frames * 42 < 240000
        IN /\ (extract_result.status = "none") <=> short
           /\ ~short => (extract_result.status = "ok" /\ extract_result.features # <<>>)
           /\ n = 99 => extract_result.status = "none"

\* extracted: exactly 100 commands and a duration of the first frame count
\* that reaches 4 minutes
C10_Witness ==
    /\ extract_result.status = "ok"
    /\ Len(trim_result.player_cmds) = 100
    /\ trim_result.game_frames = GateFrames

\* the gaps of the extracted commands have mean zero
ZeroGapMean(commands) == SumSeq(GapsMs(commands)) = 0

\* no Right Click and no Targeted Order among the commands
NoDoing(commands) ==
    CountName(commands, "Right Click") + CountName(commands, "Targeted Order") = 0

\* a finished call neither raised nor reported a zero-denominator ratio as
\* anything but 0
GuardedRatios(result, commands, frames) ==
    /\ result.status # "raise"
    /\ result.status = "ok" =>
          /\ ZeroGapMean(commands) => DictGet(result.features, <<"burstiness">>, Zero) = Zero
          /\ NoDoing(commands) =>
                DictGet(result.features, <<"think", Sep, "do", Sep, "ratio">>, <<1, 1>>) = Zero
          /\ BucketCount(commands, 0, 3) = 0 =>
                DictGet(result.features, <<"apm", Sep, "decay">>, <<1, 1>>) = Zero
          /\ frames = 0 => DictGet(result.features, <<"apm">>, <<1, 1>>) = Zero

\* C11: for every command list of at least the minimum length and every
\* match duration >= 0, neither the shared extractor nor the experiment-4
\* extractor raises a division by zero; a ratio whose denominator is zero
\* (think_do_ratio, burstiness, apm_decay, apm) is reported as 0.
C11_NoDivisionByZero ==
    /\ extract_result.status # "unset" =>
          GuardedRatios(extract_result, trim_result.player_cmds, trim_result.game_frames)
    /\ exp4_result.status # "unset" =>
          GuardedRatios(exp4_result,
                        SelectSeq(all_cmds, LAMBDA c : c.PlayerID = player_id), game_frames)

\* the shared extractor's half of C11
SharedExtractorGuarded ==
    extract_result.status # "unset" =>
        GuardedRatios(extract_result, trim_result.player_cmds, trim_result.game_frames)

\* the frames of the Leave Game commands of the match, whoever issued them
LeaveFrames == { all_cmds[i].Frame : i \in {k \in 1..Len(all_cmds) : all_cmds[k].Name = LeaveGame} }

\* C28: when the match command list holds Leave Game commands, the cut-off
\* is the earliest of their frames, whichever player left: the commands
\* returned are the target player's commands up to that frame, and the
\* duration returned is the header's frame count capped at that frame.
C28_CutOffIsEarliestLeave ==
    (trim_result.status = "ok" /\ LeaveFrames # {}) =>
        LET earliest == CHOOSE f \in LeaveFrames : \A g \in LeaveFrames : f <= g
        IN /\ trim_result.player_cmds =
                 SelectSeq(all_cmds, LAMBDA c : c.PlayerID = player_id /\ c.Frame <= earliest)
           /\ trim_result.game_frames = Min(game_frames, earliest)

\* C28 witness: trimmed, with leaves at two different frames, the earlier one
\* by the other player, and a command of the target player between them
C28_Witness ==
    /\ trim_result.status = "ok"
    /\ \E i \in 1..Len(all_cmds), j \in 1..Len(all_cmds), k \in 1..Len(all_cmds) :
          /\ all_cmds[i].Name = LeaveGame /\ all_cmds[i].PlayerID # player_id
          /\ all_cmds[j].Name = LeaveGame
          /\ all_cmds[k].Name # LeaveGame /\ all_cmds[k].PlayerID = player_id
          /\ all_cmds[i].Frame < all_cmds[k].Frame
          /\ all_cmds[k].Frame < all_cmds[j].Frame
          /\ game_frames > all_cmds[i].Frame

\* the commands are UniformClicks commands, each d > 0 frames after the one
\* before it
Uniform(commands, d) ==
    /\ Len(commands) = UniformClicks
    /\ d > 0
    /\ \A i \in 1..(Len(commands) - 1) : commands[i + 1].Frame - commands[i].Frame = d

\* the extractor was handed a uniform stream over a long enough match
UniformExtracted(d) ==
    /\ extract_result.status # "unset"
    /\ Uniform(trim_result.player_cmds, d)
    /\ trim_result.game_frames * FRAME_MS >= MIN_GAME_MINUTES * 60 * 1000

FeatureIsZero(name) ==
    /\ DictHas(extract_result.features, name)
    /\ DictGet(extract_result.features, name, Zero) = Zero

\* C24 as stated: whatever the constant spacing d > 0, a stream of
\* UniformClicks commands over a long enough match yields rapid_ratio = 0,
\* gap_std = 0 and burstiness = 0.
C24_UniformStreamAllZero ==
    \A d \in 1..(MaxSpacing + 1) :
        UniformExtracted(d) =>
            /\ extract_result.status = "ok"
            /\ FeatureIsZero(<<"rapid", Sep, "ratio">>)
            /\ FeatureIsZero(<<"gap", Sep, "std">>)
            /\ FeatureIsZero(<<"burstiness">>)

\* C24 amended: such a stream yields gap_std = 0 and burstiness = 0 for every
\* spacing, and rapid_ratio = 0 when the spacing is at least 100 ms (three
\* frames or more); with a spacing below 100 ms (one or two frames) every gap
\* is rapid and rapid_ratio = 1.
C24_UniformStreamZeroSpread ==
    \A d \in 1..(MaxSpacing + 1) :
        UniformExtracted(d) =>
            /\ extract_result.status = "ok"
            /\ FeatureIsZero(<<"gap", Sep, "std">>)
            /\ FeatureIsZero(<<"burstiness">>)
            /\ d * FRAME_MS >= 100 => FeatureIsZero(<<"rapid", Sep, "ratio">>)
            /\ d * FRAME_MS < 100 =>
                  DictGet(extract_result.features, <<"rapid", Sep, "ratio">>, Zero) = <<1, 1>>

\* C24 witness: a uniform stream with a spacing of at least 100 ms has been
\* extracted
C24_Witness ==
    \E d \in 1..(MaxSpacing + 1) :
        /\ UniformExtracted(d)
        /\ d * FRAME_MS >= 100
        /\ extract_result.status = "ok"
        /\ FeatureIsZero(<<"rapid", Sep, "ratio">>)

(***************************************************************************)
(* Action categorizer and abstracted n-grams (features.py 22-48, 85-105).   *)
(***************************************************************************)
Abilities ==
    {"Stim", "Burrow", "Unburrow", "Siege", "Unsiege", "Cloack", "Decloack",
     "Merge Archon", "Merge Dark Archon", "Lift Off", "Land"}

Cancels ==
    {"Cancel Train", "Cancel Build", "Cancel Morph", "Cancel Upgrade",
     "Cancel Tech", "Cancel Addon"}

\* a dict lookup that finds no key
Missing == "<missing>"

\* features.py 22-48
ACTION_CATEGORIES(name) ==
    CASE name = "Hotkey" -> "H"
      [] name = "Select" -> "S"
      [] name = "Select Add" -> "S+"
      [] name = "Select Remove" -> "S-"
      [] name = "Right Click" -> "R"
      [] name = "Hold Position" -> "HP"
      [] name = "Stop" -> "ST"
      [] name = "Return Cargo" -> "RC"
      [] name = "Targeted Order" -> "TO"
      [] name \in Abilities -> "Abl"
      [] name \in {"Train", "Unit Morph", "Building Morph", "Train Fighter"} -> "Prod"
      [] name = "Build" -> "Bld"
      [] name = "Upgrade" -> "Upg"
      [] name = "Tech" -> "Tech"
      [] name = "Unload" -> "Unld"
      [] name = "Unload All" -> "UnldA"
      [] name \in Cancels -> "Can"
      [] OTHER -> Missing

\* mutant: Burrow keeps a token of its own, as in the experiment-4 table
CategoryOf_BurrowCloak(name) ==
    IF name = "Burrow" THEN "Cloak"
    ELSE IF ACTION_CATEGORIES(name) = Missing THEN "O" ELSE ACTION_CATEGORIES(name)

\* features.py 99: ACTION_CATEGORIES.get(name, "O")
CategoryOf(name) ==
    IF ACTION_CATEGORIES(name) = Missing THEN "O" ELSE ACTION_CATEGORIES(name)

\* features.py 99
Categorize(names) == [i \in 1..Len(names) |-> CategoryOf(names[i])]

\* features.py 91-93: the body of the loop, for one category
CollapseStep(collapsed, cat) ==
    IF cat = "Prod" /\ collapsed[Len(collapsed)] = "Prod" THEN collapsed
    ELSE Append(collapsed, cat)

\* features.py 90-93: the loop body run for rest[lo], ..., rest[hi] in order
\* (the range is halved so that long command lists stay shallow; collapsed
\* holds categories[0] from the start and is never empty)
RECURSIVE CollapseRange(_, _, _, _)
CollapseRange(collapsed, rest, lo, hi) ==
    IF lo > hi \/ collapsed = <<>> THEN collapsed
    ELSE IF lo = hi THEN CollapseStep(collapsed, rest[lo])
    ELSE LET mid == (lo + hi) \div 2
         IN CollapseRange(CollapseRange(collapsed, rest, lo, mid), rest, mid + 1, hi)

\* features.py 90-93: the loop over categories[1:]
CollapseInto(collapsed, rest) == CollapseRange(collapsed, rest, 1, Len(rest))

\* mutant: any token equal to the one before it is dropped
RECURSIVE DedupInto(_, _)
DedupInto(collapsed, rest) ==
    IF rest = <<>> THEN collapsed
    ELSE IF Head(rest) = collapsed[Len(collapsed)]
         THEN DedupInto(collapsed, Tail(rest))
         ELSE DedupInto(Append(collapsed, Head(rest)), Tail(rest))

collapse_consecutive_prod_AnyToken(cats) ==
    IF cats = <<>> THEN <<>> ELSE DedupInto(<<cats[1]>>, Tail(cats))

\* features.py 85-94
collapse_consecutive_prod(cats) ==
    IF cats = <<>> THEN <<>> ELSE CollapseInto(<<cats[1]>>, Tail(cats))

\* features.py 97-105
extract_abstracted_ngrams(names, n) ==
    LET categories == collapse_consecutive_prod(Categorize(names))
    IN NgramCounter([i \in 1..Len(categories) |-> <<categories[i]>>], n)

\* features.py 329: for n in [2, 3, 4]
NgramSizes == {2, 3, 4}

MaxToks == 4

\* action names of the command lists explored: production of each kind,
\* abilities of two factions, a neutral command and a name the table lacks
TokNames == {"Train", "Unit Morph", "Build", "Stim", "Burrow", "Select", "Chat"}

\* features.py 97-105 for each n of features.py 329
ExtractNgrams ==
    /\ tok_ngrams = NgramsUnset
    /\ tok_categories' = Categorize(tok_cmds)
    /\ tok_collapsed' = collapse_consecutive_prod(Categorize(tok_cmds))
    /\ tok_ngrams' = [n \in NgramSizes |-> extract_abstracted_ngrams(tok_cmds, n)]
    /\ UNCHANGED tok_cmds
    /\ UNCHANGED <<hvars, vvars, svars, pvars, xvars, avars, ivars, rvars>>

TokensInit ==
    /\ \E n \in 0..MaxToks : tok_cmds \in [1..n -> TokNames]
    /\ tok_categories = <<>>
    /\ tok_collapsed = <<>>
    /\ tok_ngrams = NgramsUnset
    /\ HarnessIdle
    /\ VocabIdle
    /\ SampleIdle
    /\ PredictIdle
    /\ ExtractionIdle
    /\ AblationIdle
    /\ IngestIdle
    /\ TrainingIdle

TokensNext == ExtractNgrams

SpecTokens == TokensInit /\ [][TokensNext]_vars

\* the elements of s at the indices in K, in order
SubSeqAt(s, K) ==
    LET kept == SelectSeq([i \in 1..Len(s) |-> i], LAMBDA i : i \in K)
    IN [j \in 1..Len(kept) |-> s[kept[j]]]

\* C12: the token list before collapsing is as long as the command list; the
\* collapsed list is no longer; and the collapsed list is the mapped list
\* with some Prod tokens deleted, each directly after another Prod token,
\* every other token kept in order.
C12_CollapseOnlyDeletesRepeatedProd ==
    tok_ngrams # NgramsUnset =>
        /\ Len(tok_categories) = Len(tok_cmds)
        /\ Len(tok_collapsed) <= Len(tok_categories)
        /\ \E K \in SUBSET (1..Len(tok_categories)) :
              /\ tok_collapsed = SubSeqAt(tok_categories, K)
              /\ \A i \in (1..Len(tok_categories)) \ K :
                    /\ tok_categories[i] = "Prod"
                    /\ i > 1
                    /\ tok_categories[i - 1] = "Prod"

\* a list with a repeated Prod token and a repeated other token was collapsed
C12_Witness ==
    /\ tok_ngrams # NgramsUnset
    /\ Len(tok_collapsed) < Len(tok_categories)
    /\ \E i \in 2..Len(tok_categories) :
          tok_categories[i] # "Prod" /\ tok_categories[i - 1] = tok_categories[i]

\* the commands C13 calls production commands, and their tokens
ProductionCommands == {"Train", "Unit Morph", "Building Morph", "Train Fighter", "Build"}

ProductionTokens == { <<CategoryOf(c)>> : c \in ProductionCommands }

\* C13: every run of consecutive production commands (Train, Unit Morph,
\* Building Morph, Train Fighter, Build) is collapsed into one token: no
\* n-gram of ng2/ng3/ng4 holds two adjacent production tokens.
C13_NoAdjacentProductionTokens ==
    tok_ngrams # NgramsUnset =>
        \A n \in NgramSizes : \A e \in 1..Len(tok_ngrams[n]) :
            LET gram == tok_ngrams[n][e][1]
            IN \A k \in 1..(Len(gram) - 2) :
                  ~(<<gram[k]>> \in ProductionTokens /\ gram[k + 1] = Sep
                    /\ <<gram[k + 2]>> \in ProductionTokens)

\* the names that may stand in the place of a name: for an ability, the
\* abilities of the lists explored
Alternatives(name) == IF name \in Abilities THEN Abilities \cap TokNames ELSE {name}

\* the same list with other abilities in the places of its abilities
RECURSIVE AbilityVariants(_)
AbilityVariants(names) ==
    IF names = <<>> THEN {<<>>}
    ELSE { <<h>> \o t : h \in Alternatives(Head(names)), t \in AbilityVariants(Tail(names)) }

\* C14: every faction-specific ability name maps to one token; command lists
\* that differ only in which ability stands at a position give the same token
\* list and the same n-gram counters; a name the table lacks maps to "O".
C14_AbilitiesShareOneToken ==
    tok_ngrams # NgramsUnset =>
        /\ \A a \in Abilities : CategoryOf(a) = CategoryOf("Stim")
        /\ \A v \in AbilityVariants(tok_cmds) :
              /\ Categorize(v) = tok_categories
              /\ \A n \in NgramSizes : extract_abstracted_ngrams(v, n) = tok_ngrams[n]
        /\ \A i \in 1..Len(tok_cmds) : tok_cmds[i] = "Chat" => tok_categories[i] = "O"

\* a list with an ability, an unknown name and at least one n-gram was counted
C14_Witness ==
    /\ tok_ngrams # NgramsUnset
    /\ \E i \in 1..Len(tok_cmds) : tok_cmds[i] = "Burrow"
    /\ \E i \in 1..Len(tok_cmds) : tok_cmds[i] = "Chat"
    /\ tok_ngrams[2] # <<>>

(***************************************************************************)
(* Training / held-out validation harness (train.py, validate.py).         *)
(***************************************************************************)
MIN_GAMES == 20

MIN_OFFRACE == 20

VALIDATE_MIN_GAMES == 20

DEFAULT_MIN_HELD_OUT == 3

\* bounds of the corpora explored
Few == 3

Half == 10

MaxShared == 1

CapGames == 20

\* player_identities rows, in table order
Labels == <<"A", "B">>

Races == {"T", "Z"}

NoPlay == "-"

Rep(row, n) == [i \in 1..n |-> row]

Solo(label, race) == [l \in Range(Labels) |-> IF l = label THEN race ELSE NoPlay]

SoloKinds == << <<"A", "T">>, <<"A", "Z">>, <<"B", "T">>, <<"B", "Z">> >>

\* replays in which both labelled identities play
SharedKinds == << [A |-> "T", B |-> "T"], [A |-> "T", B |-> "Z"] >>

SoloCounts == {0, Half, MIN_GAMES, MIN_GAMES + Few}

\* the replays/players join, numbered in rowid order
BuildDb(soloCnt, sharedCnt, sharedFirst) ==
    LET solo == Rep(Solo("A", "T"), soloCnt[1]) \o Rep(Solo("A", "Z"), soloCnt[2])
                \o Rep(Solo("B", "T"), soloCnt[3]) \o Rep(Solo("B", "Z"), soloCnt[4])
        shared == Rep(SharedKinds[1], sharedCnt[1]) \o Rep(SharedKinds[2], sharedCnt[2])
        rows == IF sharedFirst THEN shared \o solo ELSE solo \o shared
    IN [i \in 1..Len(rows) |-> [replay_id |-> i, players |-> rows[i]]]

\* features.py extract_player_samples_by_aurora: one sample per replay of the
\* identity, in query order
extract_player_samples_by_aurora(d, label) ==
    LET rows == SelectSeq(d, LAMBDA r : r.players[label] # NoPlay)
    IN [i \in 1..Len(rows) |->
          [label |-> label, race |-> rows[i].players[label],
           replay_id |-> rows[i].replay_id]]

\* features.py get_pro_identities: <<canonical, total>> with total >= min_games,
\* sorted by -total (stable)
get_pro_identities(d, min_games) ==
    LET total(l) == Cardinality({i \in 1..Len(d) : d[i].players[l] # NoPlay})
        allp == [i \in 1..Len(Labels) |-> <<Labels[i], total(Labels[i])>>]
    IN SortedDesc(SelectSeq(allp, LAMBDA p : p[2] >= min_games))

RaceSeq(samples) == [i \in 1..Len(samples) |-> samples[i].race]

\* mutant: an off race with exactly MIN_OFFRACE samples is filtered too
RaceGames_OffByOne(player_samples, race, count, main_race, mg) ==
    LET race_games == SelectSeq(player_samples, LAMBDA s : s.race = race)
    IN IF race # main_race /\ count <= MIN_OFFRACE THEN <<>>
       ELSE IF mg # 0 /\ Len(race_games) > mg THEN SubSeq(race_games, 1, mg)
       ELSE race_games

\* train.py 69-78: one pass of the per-race loop
RaceGames(player_samples, race, count, main_race, mg) ==
    LET race_games == SelectSeq(player_samples, LAMBDA s : s.race = race)
    IN IF race # main_race /\ count < MIN_OFFRACE THEN <<>>
       ELSE IF mg # 0 /\ Len(race_games) > mg THEN SubSeq(race_games, 1, mg)
       ELSE race_games

RECURSIVE SelectRaces(_, _, _, _)
SelectRaces(order, player_samples, main_race, mg) ==
    IF order = <<>> THEN <<>>
    ELSE RaceGames(player_samples, Head(order)[1], Head(order)[2], main_race, mg)
         \o SelectRaces(Tail(order), player_samples, main_race, mg)

\* train.py 62-80: the samples of one identity selected for training
Selected(player_samples, mg) ==
    LET race_counts == CounterOf(RaceSeq(player_samples))
        main_race == IF race_counts = <<>> THEN "None"
                     ELSE MostCommon(race_counts, 1)[1][1]
    IN SelectRaces(SortedDesc(race_counts), player_samples, main_race, mg)

\* mutant: the identity is never skipped
TrainingContribution_NoMinimum(player_samples, mg) == Selected(player_samples, mg)

\* train.py 86-90: the identity's contribution to all_samples
TrainingContribution(player_samples, mg) ==
    LET selected == Selected(player_samples, mg)
    IN IF Len(selected) < MIN_GAMES THEN <<>> ELSE selected

TrainPros == get_pro_identities(db, MIN_GAMES)

ValidatePros == get_pro_identities(db, VALIDATE_MIN_GAMES)

\* train.py 58-93: one iteration of the pros loop
TrainPlayer ==
    /\ phase = "train"
    /\ idx <= Len(TrainPros)
    /\ LET canonical == TrainPros[idx][1]
           player_samples == extract_player_samples_by_aurora(db, canonical)
       IN all_samples' = all_samples \o TrainingContribution(player_samples, max_games)
    /\ idx' = idx + 1
    /\ UNCHANGED <<db, max_games, min_held_out, phase, cv_results, classes,
                   scored, total_tested, total_correct>>
    /\ UNCHANGED <<vvars, svars, pvars, tvars, xvars, avars, ivars, rvars>>

\* train.py 95-265: vocabulary, cross-validation, cv_results.json, model.joblib
TrainFinish ==
    /\ phase = "train"
    /\ idx > Len(TrainPros)
    /\ all_samples # <<>>
    /\ cv_results' = [i \in 1..Len(all_samples) |->
                        [sample_idx |-> i - 1,
                         true_label |-> all_samples[i].label,
                         replay_id |-> all_samples[i].replay_id,
                         race |-> all_samples[i].race]]
    /\ classes' = { all_samples[i].label : i \in 1..Len(all_samples) }
    /\ phase' = "validate"
    /\ idx' = 1
    /\ UNCHANGED <<db, max_games, min_held_out, all_samples, scored,
                   total_tested, total_correct>>
    /\ UNCHANGED <<vvars, svars, pvars, tvars, xvars, avars, ivars, rvars>>

\* train.py 112-121: an empty training set has no feature matrix to fit
TrainFail ==
    /\ phase = "train"
    /\ idx > Len(TrainPros)
    /\ all_samples = <<>>
    /\ phase' = "train_failed"
    /\ UNCHANGED <<db, max_games, min_held_out, idx, all_samples, cv_results,
                   classes, scored, total_tested, total_correct>>
    /\ UNCHANGED <<vvars, svars, pvars, tvars, xvars, avars, ivars, rvars>>

\* validate.py 46-49
training_replay_ids == { cv_results[i].replay_id : i \in 1..Len(cv_results) }

\* mutant: the held-out filter forgets the replay-id test
HeldOut_KeepsTrainedReplays(samples, trained_ids) ==
    LET trained_samples == SelectSeq(samples, LAMBDA s : s.replay_id \in trained_ids)
        trained_races == { trained_samples[i].race : i \in 1..Len(trained_samples) }
    IN SelectSeq(samples, LAMBDA s : s.race \in trained_races)

\* validate.py 74-79
HeldOut(samples, trained_ids) ==
    LET trained_samples == SelectSeq(samples, LAMBDA s : s.replay_id \in trained_ids)
        trained_races == { trained_samples[i].race : i \in 1..Len(trained_samples) }
    IN SelectSeq(samples, LAMBDA s : /\ s.replay_id \notin trained_ids
                                     /\ s.race \in trained_races)

\* validate.py 64-141 (per-game mode): one iteration of the pros loop; the
\* classifier answers with labels of its classes only
ValidatePlayer ==
    /\ phase = "validate"
    /\ idx <= Len(ValidatePros)
    /\ LET canonical == ValidatePros[idx][1]
           samples == extract_player_samples_by_aurora(db, canonical)
           held_out == HeldOut(samples, training_replay_ids)
       IN IF Len(held_out) < min_held_out
          THEN UNCHANGED <<scored, total_tested, total_correct>>
          ELSE /\ scored' = scored \o held_out
               /\ total_tested' = total_tested + Len(held_out)
               /\ \E correct \in 0..Len(held_out) :
                     /\ (canonical \notin classes => correct = 0)
                     /\ total_correct' = total_correct + correct
    /\ idx' = idx + 1
    /\ UNCHANGED <<db, max_games, min_held_out, phase, all_samples, cv_results,
                   classes>>
    /\ UNCHANGED <<vvars, svars, pvars, tvars, xvars, avars, ivars, rvars>>

\* validate.py 143
ValidateFinish ==
    /\ phase = "validate"
    /\ idx > Len(ValidatePros)
    /\ phase' = "done"
    /\ UNCHANGED <<db, max_games, min_held_out, idx, all_samples, cv_results,
                   classes, scored, total_tested, total_correct>>
    /\ UNCHANGED <<vvars, svars, pvars, tvars, xvars, avars, ivars, rvars>>

\* how many shared replays of each kind a corpus has: one kind at a time
SharedCounts == { c \in [1..2 -> 0..MaxShared] : c[1] = 0 \/ c[2] = 0 }

HarnessInit ==
    /\ \E soloCnt \in [1..4 -> SoloCounts], sharedCnt \in SharedCounts,
          sharedFirst \in BOOLEAN :
          db = BuildDb(soloCnt, sharedCnt, sharedFirst)
    /\ max_games \in {0, CapGames}
    /\ min_held_out \in {1, DEFAULT_MIN_HELD_OUT}
    /\ phase = "train"
    /\ idx = 1
    /\ all_samples = <<>>
    /\ cv_results = <<>>
    /\ classes = {}
    /\ scored = <<>>
    /\ total_tested = 0
    /\ total_correct = 0
    /\ VocabIdle
    /\ SampleIdle
    /\ PredictIdle
    /\ TokensIdle
    /\ ExtractionIdle
    /\ AblationIdle
    /\ IngestIdle
    /\ TrainingIdle

HarnessNext ==
    \/ TrainPlayer
    \/ TrainFinish
    \/ TrainFail
    \/ ValidatePlayer
    \/ ValidateFinish

SpecHarness == HarnessInit /\ [][HarnessNext]_vars

(***************************************************************************)
(* Claims about the harness.                                               *)
(***************************************************************************)

\* C1: every sample validate.py scores for an identity has a faction that
\* occurs in that identity's own training samples (the samples train.py kept
\* under that label).
C1_ScoredFactionWasTrained ==
    \A i \in 1..Len(scored) :
        \E j \in 1..Len(all_samples) :
            /\ all_samples[j].label = scored[i].label
            /\ all_samples[j].race = scored[i].race

\* C4: validate.py scores samples only for identities that are classes of
\* the trained model.
C4_ScoredIdentityIsModelClass ==
    \A i \in 1..Len(scored) : scored[i].label \in classes

\* C5: no scored sample has a replay id recorded in cv_results.json, nor the
\* replay id of any training sample.
C5_HeldOutDisjointFromTraining ==
    \A i \in 1..Len(scored) :
        /\ scored[i].replay_id \notin training_replay_ids
        /\ \A j \in 1..Len(all_samples) :
              all_samples[j].replay_id # scored[i].replay_id

\* a finished validation that scored held-out samples of a capped identity
C5_Witness ==
    /\ phase = "done"
    /\ max_games # 0
    /\ scored # <<>>
    /\ \E i \in 1..Len(scored) : scored[i].label \in classes

\* the training samples of an identity, in training-set order
SamplesOf(label) == SelectSeq(all_samples, LAMBDA s : s.label = label)

\* the sample-collection loop of the training run has just ended
Collected == phase = "train" /\ idx > Len(TrainPros)

\* C16: after sample collection every identity label in the training set has
\* at least MIN_GAMES = 20 samples, and an identity with fewer than 20
\* selected samples has no sample in the training set; the training set does
\* not change afterwards, and every class of the model has at least 20
\* samples in it.
C16_TrainedIdentitiesReachMinGames ==
    /\ Collected =>
          \A l \in Range(Labels) :
              /\ SamplesOf(l) # <<>> => Len(SamplesOf(l)) >= 20
              /\ Len(Selected(extract_player_samples_by_aurora(db, l), max_games)) < 20 =>
                    SamplesOf(l) = <<>>
    /\ \A l \in classes : Len(SamplesOf(l)) >= 20
    /\ phase # "train" => classes = { all_samples[i].label : i \in 1..Len(all_samples) }

\* trained: one identity is a class of the model, the other was skipped with
\* some, but fewer than 20, selected samples
C16_Witness ==
    /\ phase = "validate"
    /\ \E l \in Range(Labels) : l \in classes
    /\ \E l \in Range(Labels) :
          /\ Len(Selected(extract_player_samples_by_aurora(db, l), max_games)) \in 1..19
          /\ \E k \in 1..Len(TrainPros) : TrainPros[k][1] = l
          /\ l \notin classes

\* the samples of one faction among an identity's samples
OfRace(sample_list, race) == SelectSeq(sample_list, LAMBDA s : s.race = race)

\* the factions no other faction of the identity has more samples than
MostFrequent(player_samples) ==
    { r \in Races : /\ OfRace(player_samples, r) # <<>>
                    /\ \A q \in Races : Len(OfRace(player_samples, q))
                                          <= Len(OfRace(player_samples, r)) }

\* C17: the samples selected for an identity are those of its main (most
\* frequent) faction and those of each other faction that has at least
\* MIN_OFFRACE = 20 samples; an other faction with fewer contributes none;
\* with a cap max_games no (identity, faction) pair contributes more than
\* max_games samples. A trained identity's training samples are these.
C17_MainRaceAndLargeOffraces ==
    Collected => \A l \in Range(Labels) :
        LET player_samples == extract_player_samples_by_aurora(db, l)
            selected == Selected(player_samples, max_games)
        IN /\ player_samples # <<>> =>
                \E main \in MostFrequent(player_samples) :
                    \A r \in Races :
                        LET mine == OfRace(player_samples, r)
                            kept == OfRace(selected, r)
                        IN /\ (r # main /\ Len(mine) < 20) => kept = <<>>
                           /\ (r = main \/ Len(mine) >= 20) =>
                                 IF max_games # 0
                                 THEN kept = Prefix(mine, max_games)
                                 ELSE kept = mine
                           /\ max_games # 0 => Len(kept) <= max_games
           /\ SamplesOf(l) # <<>> =>
                \A r \in Races : OfRace(SamplesOf(l), r) = OfRace(selected, r)

\* trained with a cap: an identity whose main faction was capped, with one
\* other faction kept at exactly 20 samples; and an identity with a smaller
\* other faction, which was dropped
C17_Witness ==
    /\ Collected
    /\ max_games # 0
    /\ \E l \in Range(Labels) : \E r, q \in Races :
          /\ r # q
          /\ Len(OfRace(extract_player_samples_by_aurora(db, l), r)) > max_games
          /\ Len(OfRace(SamplesOf(l), r)) = max_games
          /\ Len(OfRace(SamplesOf(l), q)) = 20
    /\ \E l \in Range(Labels) : \E q \in Races :
          /\ Len(OfRace(extract_player_samples_by_aurora(db, l), q)) \in 1..19
          /\ SamplesOf(l) # <<>>
          /\ OfRace(SamplesOf(l), q) = <<>>

(***************************************************************************)
(* Prediction (predict.py) against a saved model artifact.                 *)
(***************************************************************************)
MIN_PREDICT_SAMPLES == 3

MaxTrain == 1

\* sorted(all_features): the names in one fixed total order
RECURSIVE SortedNames(_)
SortedNames(S) ==
    IF S = {} THEN <<>>
    ELSE LET x == CHOOSE y \in S : TRUE IN <<x>> \o SortedNames(S \ {x})

\* features.py 540-544: the feature names of a training set
TrainingFeatureNames(sample_list) ==
    SortedNames(UNION { DictKeys(sample_list[i].features) : i \in 1..Len(sample_list) })

\* train.py 99-112, 254-260: the artifact a training run saves for its samples
TrainedModel(sample_list) ==
    LET vocab == select_global_ngrams(RawNgramsOf(sample_list))
        applied == [i \in 1..Len(sample_list) |->
                      [features |-> apply_ngram_features(sample_list[i].features,
                                                         sample_list[i].raw_ngrams, vocab),
                       raw_ngrams |-> sample_list[i].raw_ngrams]]
    IN [feature_names |-> TrainingFeatureNames(applied),
        global_ngrams |-> vocab,
        classes |-> Labels]

\* predict.py 67, validate.py 89: [s["features"].get(f, 0) for f in feature_names]
FeatureRow(features, feature_names) ==
    [k \in 1..Len(feature_names) |-> DictGet(features, feature_names[k], Zero)]

\* the samples a prediction run extracts
PredictSamples ==
    { [features |-> f, raw_ngrams |-> EarlyGroupNgrams(g)] :
        f \in ScalarMaps, g \in {Ramp(0, 0), Ramp(0, MaxGroup)} }

\* mutant: the label of the first sample is reported, whatever the votes
predict_samples_FirstVote ==
    /\ IF Len(p_samples) < MIN_PREDICT_SAMPLES
       THEN /\ predict_result' = [PredictUnset EXCEPT !.status = "none"]
            /\ UNCHANGED <<p_samples, X>>
       ELSE /\ p_samples' = [i \in 1..Len(p_samples) |->
                               [p_samples[i] EXCEPT !.features =
                                   apply_ngram_features(p_samples[i].features,
                                                        p_samples[i].raw_ngrams,
                                                        model.global_ngrams)]]
            /\ X' = [i \in 1..Len(p_samples) |->
                       FeatureRow(p_samples'[i].features, model.feature_names)]
            /\ \E preds \in [1..Len(p_samples) -> Range(model.classes)] :
                  LET pred_counts == CounterOf(preds)
                      top == pred_counts[1]
                  IN predict_result' =
                        [status |-> "ok", prediction |-> top[1],
                         confidence |-> Ratio(top[2], Len(preds)),
                         all_preds |-> pred_counts,
                         games_analyzed |-> Len(p_samples)]
    /\ UNCHANGED model
    /\ UNCHANGED <<hvars, vvars, svars, tvars, xvars, avars, ivars, rvars>>

\* mutant: feature names the artifact lacks are added to its feature-name list
predict_samples_AdoptsFeatures ==
    /\ IF Len(p_samples) < MIN_PREDICT_SAMPLES
       THEN /\ predict_result' = [PredictUnset EXCEPT !.status = "none"]
            /\ UNCHANGED <<p_samples, X>>
       ELSE /\ p_samples' = [i \in 1..Len(p_samples) |->
                               [p_samples[i] EXCEPT !.features =
                                   apply_ngram_features(p_samples[i].features,
                                                        p_samples[i].raw_ngrams,
                                                        model.global_ngrams)]]
            /\ X' = [i \in 1..Len(p_samples) |->
                       FeatureRow(p_samples'[i].features, model.feature_names)]
            /\ \E preds \in [1..Len(p_samples) -> Range(model.classes)] :
                  LET pred_counts == CounterOf(preds)
                      top == MostCommon(pred_counts, 1)[1]
                  IN predict_result' =
                        [status |-> "ok", prediction |-> top[1],
                         confidence |-> Ratio(top[2], Len(preds)),
                         all_preds |-> pred_counts,
                         games_analyzed |-> Len(p_samples)]
    /\ model' = [model EXCEPT !.feature_names =
                    @ \o SortedNames(UNION { DictKeys(p_samples[i].features) :
                                               i \in 1..Len(p_samples) } \ Range(@))]
    /\ UNCHANGED <<hvars, vvars, svars, tvars, xvars, avars, ivars, rvars>>

\* predict.py 47-95: one call; the same samples may be handed in again
predict_samples ==
    /\ IF Len(p_samples) < MIN_PREDICT_SAMPLES
       THEN /\ predict_result' = [PredictUnset EXCEPT !.status = "none"]
            /\ UNCHANGED <<p_samples, X>>
       ELSE /\ p_samples' = [i \in 1..Len(p_samples) |->
                               [p_samples[i] EXCEPT !.features =
                                   apply_ngram_features(p_samples[i].features,
                                                        p_samples[i].raw_ngrams,
                                                        model.global_ngrams)]]
            /\ X' = [i \in 1..Len(p_samples) |->
                       FeatureRow(p_samples'[i].features, model.feature_names)]
            /\ \E preds \in [1..Len(p_samples) -> Range(model.classes)] :
                  LET pred_counts == CounterOf(preds)
                      top == MostCommon(pred_counts, 1)[1]
                  IN predict_result' =
                        [status |-> "ok", prediction |-> top[1],
                         confidence |-> Ratio(top[2], Len(preds)),
                         all_preds |-> pred_counts,
                         games_analyzed |-> Len(p_samples)]
    /\ UNCHANGED model
    /\ UNCHANGED <<hvars, vvars, svars, tvars, xvars, avars, ivars, rvars>>

PredictInit ==
    /\ \E n \in 1..MaxTrain : \E ts \in [1..n -> VocabSamples] : model = TrainedModel(ts)
    /\ \E n \in (MIN_PREDICT_SAMPLES - 1)..MIN_PREDICT_SAMPLES :
          p_samples \in [1..n -> PredictSamples]
    /\ X = <<>>
    /\ predict_result = PredictUnset
    /\ TokensIdle
    /\ ExtractionIdle
    /\ HarnessIdle
    /\ VocabIdle
    /\ SampleIdle
    /\ AblationIdle
    /\ IngestIdle
    /\ TrainingIdle

PredictNext == predict_samples

SpecPredict == PredictInit /\ [][PredictNext]_vars

\* C2: a prediction whose feature maps do not have exactly the artifact's
\* feature names ends in a fatal error; it never builds the input vector.
C2_MismatchIsFatal ==
    predict_result.status = "ok" =>
        \A i \in 1..Len(p_samples) :
            DictKeys(p_samples[i].features) = Range(model.feature_names)

(***************************************************************************)
(* Sample extraction over an identity's replays (features.py 497-535; the  *)
(* legacy extract_player_samples, 396-438, has the same loop body).        *)
(***************************************************************************)
MaxReplays == 3

\* what the loop body meets in one entry of data["Header"]["Players"]:
\*   "other"  not human, or another name: continue (513-516)
\*   "ok"     the target player, extract_features returns a feature map
\*   "short"  the target player, extract_features returns (None, None)
\*   "broken" a required field is missing: KeyError
PlayerLists ==
    { <<"ok">>, <<"short">>, <<"other", "ok">>, <<"broken", "ok">>, <<"ok", "broken">> }

\* a row of the replay list: the file is missing, the decoder fails, or the
\* decoder returns a header with these player entries
ReplayKinds ==
    { [file |-> "missing", players |-> <<>>], [file |-> "undecodable", players |-> <<>>] }
    \cup { [file |-> "decoded", players |-> pl] : pl \in PlayerLists }

\* features.py 512-531: the loop over the players of one replay, from entry
\* k on; an exception ends it, and what was appended before stays appended
RECURSIVE ScanPlayers(_, _, _, _)
ScanPlayers(sample_list, replay, replay_id, k) ==
    IF k > Len(replay.players) THEN sample_list
    ELSE IF replay.players[k] = "broken" THEN sample_list
    ELSE IF replay.players[k] = "ok"
         THEN ScanPlayers(Append(sample_list, [replay_id |-> replay_id, slot |-> k]),
                          replay, replay_id, k + 1)
         ELSE ScanPlayers(sample_list, replay, replay_id, k + 1)

\* features.py 502-533: one iteration of the loop over the replays
ProcessReplay(sample_list, replay, replay_id) ==
    IF replay.file = "missing" THEN sample_list
    ELSE IF replay.file = "undecodable" THEN sample_list
    ELSE ScanPlayers(sample_list, replay, replay_id, 1)

\* features.py 502-533
ExtractReplay ==
    /\ ex_next \in 1..Len(ex_replays)
    /\ ex_samples' = ProcessReplay(ex_samples, ex_replays[ex_next], ex_next)
    /\ ex_next' = ex_next + 1
    /\ UNCHANGED <<ex_replays, ex_output>>
    /\ UNCHANGED <<hvars, vvars, svars, pvars, tvars, avars, ivars, rvars>>

\* features.py 535 and train.py 86-92: the list is returned and the run
\* prints the identity's number of valid games (one faction, no cap: every
\* sample is selected)
ReportExtraction ==
    /\ ex_next = Len(ex_replays) + 1
    /\ ex_output = <<>>
    /\ ex_output' = << <<"valid games", Len(ex_samples)>> >>
    /\ UNCHANGED <<ex_replays, ex_next, ex_samples>>
    /\ UNCHANGED <<hvars, vvars, svars, pvars, tvars, avars, ivars, rvars>>

ExtractionInit ==
    /\ \E n \in 0..MaxReplays : ex_replays \in [1..n -> ReplayKinds]
    /\ ex_next = 1
    /\ ex_samples = <<>>
    /\ ex_output = <<>>
    /\ HarnessIdle
    /\ VocabIdle
    /\ SampleIdle
    /\ PredictIdle
    /\ TokensIdle
    /\ AblationIdle
    /\ IngestIdle
    /\ TrainingIdle

ExtractionNext ==
    \/ ExtractReplay
    \/ ReportExtraction

SpecExtraction == ExtractionInit /\ [][ExtractionNext]_vars

\* a replay fails: its file is missing or undecodable, a required field is
\* missing, or the target player's sample is too short
Failed(replay) ==
    \/ replay.file # "decoded"
    \/ \E k \in 1..Len(replay.players) : replay.players[k] \in {"broken", "short"}

\* the samples of the replays before index n that did not fail, in order
RECURSIVE SucceededSamples(_)
SucceededSamples(n) ==
    IF n = 0 THEN <<>>
    ELSE LET replay == ex_replays[n]
             slots == SelectSeq([k \in 1..Len(replay.players) |-> k],
                                LAMBDA k : replay.players[k] = "ok")
         IN SucceededSamples(n - 1)
            \o (IF Failed(replay) THEN <<>>
                ELSE [j \in 1..Len(slots) |-> [replay_id |-> n, slot |-> slots[j]]])

\* C18: a failure on one replay skips only that replay: after every
\* iteration the samples are exactly those of the replays processed so far
\* that succeeded, in their original order.
C18_FailedReplayContributesNothing ==
    ex_next >= 1 => ex_samples = SucceededSamples(ex_next - 1)

\* the number of replays that failed
FailedCount == Cardinality({ n \in 1..Len(ex_replays) : Failed(ex_replays[n]) })

\* C19: when samples were skipped because of per-sample failures, the run
\* reports their number.
C19_SkippedCountReported ==
    (ex_output # <<>> /\ FailedCount > 0) =>
        DictGet(ex_output, "skipped", -1) = FailedCount

\* C20: prediction leaves the loaded artifact unchanged: no step changes the
\* frozen vocabulary, the ordered feature-name list or the class list; of the
\* samples only the feature maps are written to.
C20_ArtifactUnchanged ==
    [][/\ model' = model
       /\ Len(p_samples') = Len(p_samples)
       /\ \A i \in 1..Len(p_samples) : p_samples'[i].raw_ngrams = p_samples[i].raw_ngrams]_vars

\* predicted: a sample has a feature the artifact does not name, and the
\* vocabulary's features were written into the samples' maps
C20_Witness ==
    /\ predict_result.status = "ok"
    /\ model.global_ngrams # <<>>
    /\ \E i \in 1..Len(p_samples) :
          /\ ~(DictKeys(p_samples[i].features) \subseteq Range(model.feature_names))
          /\ \E k \in DictKeys(p_samples[i].features) : k[1] = model.global_ngrams[1][1]

(***************************************************************************)
(* Abstracted-versus-raw ablation (experiment_zerg_raw.py): two runs of    *)
(* run_loo_cv over the sample list main has built.                         *)
(***************************************************************************)
\* experiment_zerg_raw.py 35
IGNORED_CMDS == {"Chat", "Leave Game", "Alliance", "Vision"}

\* experiment_zerg_raw.py 38-45
extract_raw_ngrams(names, n) ==
    LET types == SelectSeq(names, LAMBDA t : t \notin IGNORED_CMDS)
    IN NgramCounter([i \in 1..Len(types) |-> <<types[i]>>], n)

\* features.py 329-333: raw_ngrams[f"ng{n}"] for n in [2, 3, 4]
AbstractedChannels(raw_ngrams, names) ==
    LET r2 == ChannelEntry(raw_ngrams, "ng2", extract_abstracted_ngrams(names, 2))
        r3 == ChannelEntry(r2, "ng3", extract_abstracted_ngrams(names, 3))
    IN ChannelEntry(r3, "ng4", extract_abstracted_ngrams(names, 4))

\* experiment_zerg_raw.py 76-81: raw_ngrams[f"rng{n}"] for n in [2, 3, 4]
RawChannels(raw_ngrams, names) ==
    LET r2 == ChannelEntry(raw_ngrams, "rng2", extract_raw_ngrams(names, 2))
        r3 == ChannelEntry(r2, "rng3", extract_raw_ngrams(names, 3))
    IN ChannelEntry(r3, "rng4", extract_raw_ngrams(names, 4))

\* experiment_zerg_raw.py 100-105
AbstractedPrefixes == {"ng2", "ng3", "ng4"}

RawPrefixes == {"rng2", "rng3", "rng4"}

hotkey_prefixes == {"hkg2", "hkg3", "ehkg2", "ehkg3"}

\* experiment_zerg_raw.py 107-110: the counters of the active channels
FilteredNgrams(samples, active_prefixes) ==
    [i \in 1..Len(samples) |->
        SelectSeq(samples[i].raw_ngrams, LAMBDA e : e[1] \in active_prefixes)]

\* experiment_zerg_raw.py 112-119 on the run's own samples: vocabulary,
\* assembly, feature matrix
LooRun(samples, ngram_prefixes) ==
    LET filtered_ngrams == FilteredNgrams(samples, ngram_prefixes \cup hotkey_prefixes)
        vocab == select_global_ngrams(filtered_ngrams)
        applied == [i \in 1..Len(samples) |->
                      [samples[i] EXCEPT !.features =
                          apply_ngram_features(@, filtered_ngrams[i], vocab)]]
    IN [global_ngrams |-> vocab,
        samples |-> applied,
        feature_names |-> TrainingFeatureNames(applied),
        y |-> [i \in 1..Len(applied) |-> applied[i].label]]

\* mutant: no deep copy, the run assembles the caller's samples in place
run_loo_cv_NoCopy(ngram_prefixes) ==
    /\ abl_runs' = Append(abl_runs, LooRun(abl_samples, ngram_prefixes))
    /\ abl_samples' = LooRun(abl_samples, ngram_prefixes).samples

\* experiment_zerg_raw.py 98-119: the run works on copy.deepcopy(samples)
run_loo_cv(ngram_prefixes) ==
    /\ abl_runs' = Append(abl_runs, LooRun(abl_samples, ngram_prefixes))
    /\ UNCHANGED abl_samples

\* experiment_zerg_raw.py 232
RunAbstracted ==
    /\ abl_pc = "A"
    /\ run_loo_cv(AbstractedPrefixes)
    /\ abl_pc' = "B"
    /\ UNCHANGED abl_replays
    /\ UNCHANGED <<hvars, vvars, svars, pvars, tvars, xvars, ivars, rvars>>

\* experiment_zerg_raw.py 235
RunRaw ==
    /\ abl_pc = "B"
    /\ run_loo_cv(RawPrefixes)
    /\ abl_pc' = "done"
    /\ UNCHANGED abl_replays
    /\ UNCHANGED <<hvars, vvars, svars, pvars, tvars, xvars, ivars, rvars>>

MaxAblSamples == 2

\* the last commands of the replays explored; Chat is ignored by the raw
\* channels and is the token O of the abstracted ones
AblTails == { <<"Select", "Build">>, <<"Chat", "Select">> }

\* the target player's commands in a replay: one Hotkey command per group in
\* groups, Train commands up to MIN_COMMANDS commands in all, then the tail
AblNames(groups, tail) ==
    [i \in 1..Len(groups) |-> "Hotkey"]
    \o [i \in 1..(MIN_COMMANDS - Len(groups) - Len(tail)) |-> "Train"]
    \o tail

\* the scalar features extract_features returns for the replays explored
AblScalars ==
    << <<<<"apm">>, <<90, 1>>>>, <<<<"hk", Sep, "tr", Sep, "0", Sep, "1">>, <<1, 2>>>> >>

\* experiment_zerg_raw.py 70-90: the sample of one replay; the Hotkey commands
\* come first, so all of them are early-game commands
DualSample(replay) ==
    [features |-> AblScalars,
     raw_ngrams |-> RawChannels(AbstractedChannels(HotkeyGroupNgrams(replay.groups)
                                                       \o EarlyGroupNgrams(replay.groups),
                                                   replay.names),
                                replay.names),
     label |-> replay.label]

ManyGroups == 11

\* the hotkey commands of the replays explored: none, a few (early-group
\* channels only), or more than ten (hkg channels as well)
AblGroups == {<<>>, Ramp(0, MaxGroup), ZigZag(ManyGroups)}

AblReplays ==
    { [names |-> AblNames(g, tail), groups |-> g, label |-> label] :
        g \in AblGroups, tail \in AblTails, label \in Range(Labels) }

\* experiment_zerg_raw.py 204-220: all_samples built from the replays
ExtractSamples ==
    /\ abl_pc = "extract"
    /\ abl_samples' = [i \in 1..Len(abl_replays) |-> DualSample(abl_replays[i])]
    /\ abl_pc' = "A"
    /\ UNCHANGED <<abl_replays, abl_runs>>
    /\ UNCHANGED <<hvars, vvars, svars, pvars, tvars, xvars, ivars, rvars>>

AblationInit ==
    /\ \E n \in 1..MaxAblSamples : abl_replays \in [1..n -> AblReplays]
    /\ abl_samples = <<>>
    /\ abl_runs = <<>>
    /\ abl_pc = "extract"
    /\ HarnessIdle
    /\ VocabIdle
    /\ SampleIdle
    /\ PredictIdle
    /\ TokensIdle
    /\ ExtractionIdle
    /\ IngestIdle
    /\ TrainingIdle

AblationNext ==
    \/ ExtractSamples
    \/ RunAbstracted
    \/ RunRaw

SpecAblation == AblationInit /\ [][AblationNext]_vars

\* the channel prefix of a feature name, "" for a name without "_"
NamePrefix(name) == IF Len(name) >= 2 /\ name[2] = Sep THEN name[1] ELSE ""

\* C21: a run of run_loo_cv leaves the samples it was given as they were
\* (feature maps, raw counters, labels); the second run therefore scores the
\* same samples with the same labels as the first, and none of its feature
\* names belongs to a channel of the first run (ng2, ng3, ng4).
C21_RunLeavesSharedSamples ==
    /\ [][abl_pc # "extract" => abl_samples' = abl_samples]_vars
    /\ [](abl_pc = "done" =>
            /\ Len(abl_runs) = 2
            /\ abl_runs[2].y = abl_runs[1].y
            /\ abl_runs[2].y = [i \in 1..Len(abl_samples) |-> abl_samples[i].label]
            /\ \A i \in 1..Len(abl_samples) :
                  /\ abl_runs[2].samples[i].raw_ngrams = abl_samples[i].raw_ngrams
                  /\ \A k \in DictKeys(abl_samples[i].features) :
                        DictGet(abl_runs[2].samples[i].features, k, Zero)
                            = DictGet(abl_samples[i].features, k, Zero)
            /\ \A k \in 1..Len(abl_runs[2].feature_names) :
                  NamePrefix(abl_runs[2].feature_names[k]) \notin AbstractedPrefixes)

\* C21 witness: both runs are over, the first one had abstracted n-gram
\* features and the second has raw ones
C21_Witness ==
    /\ abl_pc = "done"
    /\ \E k \in 1..Len(abl_runs[1].feature_names) :
          NamePrefix(abl_runs[1].feature_names[k]) \in AbstractedPrefixes
    /\ \E k \in 1..Len(abl_runs[2].feature_names) :
          NamePrefix(abl_runs[2].feature_names[k]) \in RawPrefixes

\* features.py 124-326: the scalar feature names extract_features can write,
\* hk_tr_* for the group numbers 0 and 1 (the *_*_ratio family is listed as a
\* product and holds more names than the code writes)
ScalarFeatureNames ==
    { <<"gap", Sep, x>> : x \in {"mean", "std", "median"} }
    \cup { <<x, Sep, "ratio">> : x \in {"rapid", "moderate", "slow", "queued"} }
    \cup { <<"burstiness">>, <<"apm">>, <<"primary", Sep, "hotkey", Sep, "group">> }
    \cup { <<"hotkey", Sep, x>> : x \in {"diversity", "concentration"} }
    \cup { <<"hotkey", Sep, x, Sep, "ratio">> : x \in {"assign", "action"} }
    \cup { <<"hk", Sep, "tr", Sep, x, Sep, y>> : x \in {"0", "1"}, y \in {"0", "1"} }
    \cup { <<"click", Sep, "dist", Sep, x>> : x \in {"mean", "std", "median"} }
    \cup { <<x, Sep, y, Sep, "ratio">> :
             x \in {"small", "big", "selection", "select", "reselect", "think", "early"},
             y \in {"move", "jump", "action", "add", "burst", "do", "rapid"} }
    \cup { <<"early", Sep, "apm">>, <<"early", Sep, "gap", Sep, "mean">> }
    \cup { <<"first", Sep, "assign", Sep, x>> : x \in {"0", "1", "2"} }
    \cup { <<"select", Sep, x, Sep, y>> :
             x \in {"size", "gap"}, y \in {"mean", "std", "median"} }
    \cup { <<"sa", Sep, "latency", Sep, x>> : x \in {"mean", "median"} }
    \cup { <<"burst", Sep, "count", Sep, "per", Sep, "min">>,
           <<"burst", Sep, "size", Sep, "mean">>,
           <<"inter", Sep, "burst", Sep, "gap", Sep, "mean">>,
           <<"autocorr", Sep, "lag1">>,
           <<"map", Sep, "jumps", Sep, "per", Sep, "min">>,
           <<"apm", Sep, "decay">>, <<"apm", Sep, "variance">> }
    \cup { <<"pct", Sep, x>> : x \in {"hotkey", "select"} }
    \cup { <<"pct", Sep, "right", Sep, "click">>, <<"pct", Sep, "targeted", Sep, "order">> }

\* the (channel, token) pairs of a vocabulary
VocabPairs(vocab) ==
    UNION { { <<vocab[k][1], g>> : g \in Range(vocab[k][2]) } : k \in 1..Len(vocab) }

\* C23: over the vocabularies of both runs, the feature names of two
\* different channels never coincide, whatever the tokens, and no n-gram
\* feature name is the name of a scalar feature.
C23_ChannelNamesNeverCollide ==
    LET pairs == UNION { VocabPairs(abl_runs[r].global_ngrams) : r \in 1..Len(abl_runs) }
    IN /\ \A a \in pairs, b \in pairs :
             a[1] # b[1] => FeatureName(a[1], a[2]) # FeatureName(b[1], b[2])
       /\ \A a \in pairs :
             /\ FeatureName(a[1], a[2]) \notin ScalarFeatureNames
             /\ \A i \in 1..Len(abl_samples) :
                   FeatureName(a[1], a[2]) \notin DictKeys(abl_samples[i].features)

\* C23 witness: both runs are over and two channels selected one and the same
\* token
C23_Witness ==
    /\ abl_pc = "done"
    /\ \E a \in VocabPairs(abl_runs[1].global_ngrams),
          b \in VocabPairs(abl_runs[1].global_ngrams) : a[1] # b[1] /\ a[2] = b[2]
    /\ \E k \in 1..Len(abl_runs[2].global_ngrams) :
          abl_runs[2].global_ngrams[k][1] \in RawPrefixes

\* the channel names f"ng{n}" and f"rng{n}"
NgPrefix(n) == CASE n = 2 -> "ng2" [] n = 3 -> "ng3" [] n = 4 -> "ng4"

RngPrefix(n) == CASE n = 2 -> "rng2" [] n = 3 -> "rng3" [] n = 4 -> "rng4"

\* C27: for each window length n, the cap select_global_ngrams used for the
\* raw channel rng{n} of the second run equals the cap it used for the
\* abstracted channel ng{n} of the first run.
C27_RawBudgetEqualsAbstracted ==
    abl_pc = "done" =>
        \A n \in NgramSizes :
            (/\ DictHas(abl_runs[1].global_ngrams, NgPrefix(n))
             /\ DictHas(abl_runs[2].global_ngrams, RngPrefix(n)))
            => GLOBAL_NGRAM_TOP_N(RngPrefix(n)) = GLOBAL_NGRAM_TOP_N(NgPrefix(n))

(***************************************************************************)
(* One training run (train.py main): the samples of each identity are      *)
(* added to all_samples, the vocabulary is selected, every sample is       *)
(* assembled, the artifact is saved.                                       *)
(***************************************************************************)
\* mutant: the vocabulary is refreshed each time an identity's samples arrive
TrainExtend_OnlineVocabulary ==
    /\ tr_pending # <<>>
    /\ tr_samples' = tr_samples \o Head(tr_pending)
    /\ tr_pending' = Tail(tr_pending)
    /\ tr_vocab' = IF tr_samples' = <<>> THEN tr_vocab
                   ELSE select_global_ngrams(RawNgramsOf(tr_samples'))
    /\ UNCHANGED <<tr_next, tr_model>>
    /\ UNCHANGED <<hvars, vvars, svars, pvars, tvars, xvars, avars, ivars>>

\* train.py 57-93: one iteration of the pros loop; Head(tr_pending) is what
\* the identity contributes after the filters (nothing when it is skipped)
TrainExtend ==
    /\ tr_pending # <<>>
    /\ tr_samples' = tr_samples \o Head(tr_pending)
    /\ tr_pending' = Tail(tr_pending)
    /\ UNCHANGED <<tr_vocab, tr_next, tr_model>>
    /\ UNCHANGED <<hvars, vvars, svars, pvars, tvars, xvars, avars, ivars>>

\* train.py 99
TrainSelectVocabulary ==
    /\ tr_pending = <<>>
    /\ tr_vocab = VocabNone
    /\ tr_vocab' = select_global_ngrams(RawNgramsOf(tr_samples))
    /\ tr_next' = 1
    /\ UNCHANGED <<tr_pending, tr_samples, tr_model>>
    /\ UNCHANGED <<hvars, vvars, svars, pvars, tvars, xvars, avars, ivars>>

\* train.py 108-109: one iteration of the loop over all_samples
TrainApply ==
    /\ tr_vocab # VocabNone
    /\ tr_next <= Len(tr_samples)
    /\ tr_samples' = [tr_samples EXCEPT ![tr_next].features =
                         apply_ngram_features(@, tr_samples[tr_next].raw_ngrams, tr_vocab)]
    /\ tr_next' = tr_next + 1
    /\ UNCHANGED <<tr_pending, tr_vocab, tr_model>>
    /\ UNCHANGED <<hvars, vvars, svars, pvars, tvars, xvars, avars, ivars>>

\* train.py 112-263: feature matrix, fit (which needs at least one sample),
\* joblib.dump
TrainSave ==
    /\ tr_vocab # VocabNone
    /\ tr_next > Len(tr_samples)
    /\ tr_samples # <<>>
    /\ tr_model = NoModel
    /\ tr_model' = [feature_names |-> TrainingFeatureNames(tr_samples),
                    global_ngrams |-> tr_vocab,
                    classes |-> SortedNames({ tr_samples[i].label : i \in 1..Len(tr_samples) })]
    /\ UNCHANGED <<tr_pending, tr_samples, tr_vocab, tr_next>>
    /\ UNCHANGED <<hvars, vvars, svars, pvars, tvars, xvars, avars, ivars>>

\* the early hotkey-group streams of the replays explored
TrainStreams == { Ramp(0, 0), Ramp(0, MaxGroup), ZigZag(MaxGroup) }

\* what an identity contributes: nothing (skipped), or MIN_GAMES samples
Contributions(label) ==
    { <<>> } \cup
    { Rep([features |-> f, raw_ngrams |-> EarlyGroupNgrams(g), label |-> label], MIN_GAMES) :
        f \in ScalarMaps, g \in TrainStreams }

TrainingInit ==
    /\ tr_pending \in [1..Len(Labels) -> UNION { Contributions(Labels[k]) : k \in 1..Len(Labels) }]
    /\ \A k \in 1..Len(Labels) : tr_pending[k] \in Contributions(Labels[k])
    /\ tr_samples = <<>>
    /\ tr_vocab = VocabNone
    /\ tr_next = 0
    /\ tr_model = NoModel
    /\ HarnessIdle
    /\ VocabIdle
    /\ SampleIdle
    /\ PredictIdle
    /\ TokensIdle
    /\ ExtractionIdle
    /\ AblationIdle
    /\ IngestIdle

TrainingNext ==
    \/ TrainExtend
    \/ TrainSelectVocabulary
    \/ TrainApply
    \/ TrainSave

SpecTraining == TrainingInit /\ [][TrainingNext]_vars

\* C25: the vocabulary changes once in a run, from unselected to the
\* selection made from the whole final training set when no identity is left
\* to visit; no sample is added afterwards; once the artifact is saved, every
\* training sample carries a feature for each vocabulary token and the
\* artifact holds that same vocabulary.
C25_VocabularyFrozenAfterCollection ==
    /\ [][tr_vocab' # tr_vocab =>
             /\ tr_vocab = VocabNone
             /\ tr_pending = <<>>
             /\ tr_samples' = tr_samples
             /\ tr_vocab' = select_global_ngrams(RawNgramsOf(tr_samples))]_vars
    /\ [][tr_vocab # VocabNone =>
             /\ Len(tr_samples') = Len(tr_samples)
             /\ RawNgramsOf(tr_samples') = RawNgramsOf(tr_samples)]_vars
    /\ [][tr_model # NoModel => tr_model' = tr_model /\ tr_samples' = tr_samples]_vars
    /\ [](tr_model # NoModel =>
             /\ tr_model.global_ngrams = tr_vocab
             /\ tr_vocab = select_global_ngrams(RawNgramsOf(tr_samples))
             /\ \A i \in 1..Len(tr_samples) :
                   VocabNames(tr_vocab) \subseteq DictKeys(tr_samples[i].features))

\* C25 witness: a saved artifact with a non-empty vocabulary, trained on the
\* samples of two identities
C25_Witness ==
    /\ tr_model # NoModel
    /\ VocabSize(tr_model.global_ngrams) > 0
    /\ Len(tr_model.classes) = 2

\* the window length n of a channel
WindowLen(prefix) ==
    CASE prefix \in {"ng2", "hkg2", "ehkg2"} -> 2
      [] prefix \in {"ng3", "hkg3", "ehkg3"} -> 3
      [] prefix = "ng4" -> 4

\* the stream a channel of extract_features is counted over: the collapsed
\* category tokens, or the group numbers of the Hotkey commands
ChannelStream(replay, prefix) ==
    IF prefix \in AbstractedPrefixes
    THEN LET cats == collapse_consecutive_prod(Categorize(replay.names))
         IN [k \in 1..Len(cats) |-> <<cats[k]>>]
    ELSE [k \in 1..Len(replay.groups) |-> GroupStr(replay.groups[k])]

\* the window of length n that starts at position k
Window(stream, k, n) == Join(SubSeq(stream, k, k + n - 1))

\* C26: for every channel of a sample that extract_features emitted, the
\* counter's keys are exactly the distinct windows of length n of the
\* channel's stream, each count is the number of positions the window occurs
\* at, and the paired total is the sum of the counts, stream length - n + 1.
C26_CountersHoldEveryWindow ==
    \A i \in 1..Len(abl_samples) :
        \A e \in 1..Len(abl_samples[i].raw_ngrams) :
            LET prefix == abl_samples[i].raw_ngrams[e][1]
                entry == abl_samples[i].raw_ngrams[e][2]
            IN prefix \in AbstractedPrefixes \cup hotkey_prefixes =>
                  LET n == WindowLen(prefix)
                      stream == ChannelStream(abl_replays[i], prefix)
                      starts == 1..(Len(stream) - n + 1)
                  IN /\ DictKeys(entry.counter) = { Window(stream, k, n) : k \in starts }
                     /\ \A c \in 1..Len(entry.counter) :
                           entry.counter[c][2] =
                               Cardinality({ k \in starts :
                                               Window(stream, k, n) = entry.counter[c][1] })
                     /\ entry.total = SumValues(entry.counter)
                     /\ entry.total = Len(stream) - n + 1

\* C26 witness: a sample with hotkey-group, early-group and abstracted
\* channels, an abstracted one with more than three distinct windows and one
\* with a window that occurs more than once
C26_Witness ==
    \E i \in 1..Len(abl_samples) :
        /\ {"hkg2", "ehkg3", "ng4"} \subseteq DictKeys(abl_samples[i].raw_ngrams)
        /\ \E e \in 1..Len(abl_samples[i].raw_ngrams) :
              /\ abl_samples[i].raw_ngrams[e][1] \in AbstractedPrefixes
              /\ Len(abl_samples[i].raw_ngrams[e][2].counter) > 3
        /\ \E e \in 1..Len(abl_samples[i].raw_ngrams) :
              \E c \in 1..Len(abl_samples[i].raw_ngrams[e][2].counter) :
                  abl_samples[i].raw_ngrams[e][2].counter[c][2] > 1

(***************************************************************************)
(* Ingestion of new replays (ingest_replays.py ingest_new). A file of the  *)
(* to-ingest directory is [dir, name, content, ok]: the sub-directory it   *)
(* lies in, its file name, its content (which fixes its MD5 hash) and      *)
(* whether process_replay can decode it.                                   *)
(***************************************************************************)
MaxIncoming == 2

FileNames == {"a.rep", "b.rep"}

FileContents == {1, 2}

IncomingFiles == [dir : {"", "sub"}, name : FileNames, content : FileContents, ok : BOOLEAN]

\* ingest_replays.py 195-229: INSERT OR IGNORE of the row; file_path is the
\* name under the destination directory
insert_replay(rows, result) ==
    IF \E r \in 1..Len(rows) : rows[r].file_hash = result.file_hash THEN rows
    ELSE Append(rows, result)

\* ingest_replays.py 361-393: the body of the loop for one finished future
\* and the file it belongs to; as_completed yields them in any order
IngestOne(f) ==
    /\ ing_pc = "loop"
    /\ f \in ing_incoming
    /\ IF ~f.ok \/ f.content \in ing_existing
       THEN UNCHANGED <<ing_rows, ing_existing>>
       ELSE /\ ing_rows' = insert_replay(ing_rows, [file_hash |-> f.content,
                                                    file_path |-> f.name])
            /\ ing_existing' = ing_existing \cup {f.content}
    /\ ing_dest' = IF ~DictHas(ing_dest, f.name) THEN Append(ing_dest, <<f.name, f.content>>)
                   ELSE ing_dest
    /\ ing_incoming' = ing_incoming \ {f}
    /\ UNCHANGED ing_pc
    /\ UNCHANGED <<hvars, vvars, svars, pvars, tvars, xvars, avars, rvars>>

\* ingest_replays.py 338-341, 395-403: nothing (left) to ingest
IngestFinish ==
    /\ ing_pc = "loop"
    /\ ing_incoming = {}
    /\ ing_pc' = "done"
    /\ UNCHANGED <<ing_incoming, ing_dest, ing_rows, ing_existing>>
    /\ UNCHANGED <<hvars, vvars, svars, pvars, tvars, xvars, avars, rvars>>

\* the destination directory and the table before the run: empty, or one
\* replay ingested earlier
EarlierRuns ==
    { <<>> } \cup { << <<n, c>> >> : n \in FileNames, c \in FileContents }

IngestInit ==
    /\ ing_incoming \in SUBSET IncomingFiles
    /\ Cardinality(ing_incoming) <= MaxIncoming
    /\ \A f \in ing_incoming, g \in ing_incoming :
          (f.dir = g.dir /\ f.name = g.name) => f = g
    /\ ing_dest \in EarlierRuns
    /\ ing_rows = [r \in 1..Len(ing_dest) |->
                     [file_hash |-> ing_dest[r][2], file_path |-> ing_dest[r][1]]]
    /\ ing_existing = { ing_rows[r].file_hash : r \in 1..Len(ing_rows) }
    /\ ing_pc = "loop"
    /\ HarnessIdle
    /\ VocabIdle
    /\ SampleIdle
    /\ PredictIdle
    /\ TokensIdle
    /\ ExtractionIdle
    /\ AblationIdle
    /\ TrainingIdle

IngestNext ==
    \/ \E f \in IncomingFiles : IngestOne(f)
    \/ IngestFinish

SpecIngest == IngestInit /\ [][IngestNext]_vars

\* C29: when ingest_new has finished, the file stored at the file_path of
\* every row of the table has that row's content hash, and no replay file is
\* left in the to-ingest directory.
C29_RowsPointAtTheirFiles ==
    ing_pc = "done" =>
        /\ \A r \in 1..Len(ing_rows) :
              /\ DictHas(ing_dest, ing_rows[r].file_path)
              /\ DictGet(ing_dest, ing_rows[r].file_path, 0) = ing_rows[r].file_hash
        /\ ing_incoming = {}

\* the number of votes a label received in the reported vote counts
Votes(label) == DictGet(predict_result.all_preds, label, 0)

\* C30: predict_samples returns no result for fewer than 3 samples; for 3 or
\* more the vote counts of all_preds sum to games_analyzed, the prediction is
\* a label with at least as many votes as every other label, and confidence
\* is that label's votes divided by games_analyzed, a value in (0, 1].
C30_MajorityVote ==
    /\ [][(Len(p_samples) < 3) <=> (predict_result'.status = "none")]_vars
    /\ [](predict_result.status = "ok" =>
            /\ Len(p_samples) >= 3
            /\ predict_result.games_analyzed = Len(p_samples)
            /\ SumValues(predict_result.all_preds) = predict_result.games_analyzed
            /\ DictHas(predict_result.all_preds, predict_result.prediction)
            /\ \A label \in DictKeys(predict_result.all_preds) :
                  Votes(predict_result.prediction) >= Votes(label)
            /\ predict_result.confidence[1] * predict_result.games_analyzed
                  = Votes(predict_result.prediction) * predict_result.confidence[2]
            /\ 0 < predict_result.confidence[1]
            /\ predict_result.confidence[1] <= predict_result.confidence[2])

\* a split vote whose winner is not the label of the first sample
C30_Witness ==
    /\ predict_result.status = "ok"
    /\ Len(predict_result.all_preds) >= 2
    /\ predict_result.prediction # predict_result.all_preds[1][1]
    /\ predict_result.confidence[1] < predict_result.confidence[2]
====
